---- MODULE Spec2Model ----
(***************************************************************************)
(* Model of the contest-environment manager (eyasir329/PC_setup):          *)
(*   - the domain normaliser and the whitelist store of                    *)
(*     contest_manager/core/manager.py and of scripts/manager.py,          *)
(*   - the per-user firewall rule builder of                               *)
(*     scripts/utils/network_restrictor.py and its caller                  *)
(*     scripts/restrict.py,                                                *)
(*   - the dependency filter of utils/dependency_analyzer.py, the          *)
(*     command-line entry points, the dependencies report and the          *)
(*     dependency cache,                                                   *)
(* and of the ranker's points formula (Ranker/scripts).                    *)
(* Python strings are sequences of one-character strings, so that          *)
(* replace / split / lower / strip are computed character by character.    *)
(***************************************************************************)
EXTENDS Integers, Sequences, FiniteSets, TLC

VARIABLES
    norm,            \* normaliser runs: [x, r1, r2, pc]
    store,           \* save/load runs: [ins, file, loaded, pc]
    whitelist_file,  \* ContestManager.whitelist_file: the lines of the file
    WHITELIST_FILE,  \* scripts/manager.py WHITELIST_FILE: the lines of the file
    wl_last,         \* the last whitelist call: [impl, op, arg, result, exit, before]
    ipt,             \* kernel tables: [v4, v6], each [jumps, cin, cout, rules]
    dns,             \* what the resolver answers: name -> set of addresses
    fw_last,         \* the last firewall call: [op, result, exit, domains, wl] and
                     \* whether every call so far was of one family of calls
    filt,            \* filter_dependencies runs: [dependencies, essential_deps, pc]
    cli,             \* one invocation of main after another: what exists on disk,
                     \* whether system state was touched, and the last invocation
    rep,             \* show_dependencies runs: [domains, cache, out, pc]
    dc,              \* whitelist.txt and .dependency_cache.json under add, remove,
                     \* restrict, monitor and unrestrict, with the domains the
                     \* whitelist has held so far
    pts,             \* calculate_points runs of the ranker: [rank, points, pc]
    run,             \* one NetworkRestrictor call, command by command: the
                     \* commands still to run, what was logged, the result
    rr,              \* one restrict run, phase by phase: whitelist, crawl
                     \* outcomes, cache, phases done, persistence files
    mon,             \* the loop of restrict.py --monitor
    usb,             \* USB rule files and monitoring units on disk
    lb               \* the ranker: leaderboard file and update_leaderboard runs

\* the variables the whitelist and firewall calls never touch
more == <<rr, mon, usb, lb>>

others == <<filt, cli, rep, dc, pts, run, more>>

vars == <<norm, store, whitelist_file, WHITELIST_FILE, wl_last, ipt, dns, fw_last, others>>

(***************************************************************************)
(* Bounds                                                                  *)
(***************************************************************************)
MaxPieces == 3     \* an input string is at most this many pieces long
MaxJumps  == 2     \* owner-match jumps kept in one OUTPUT chain
MaxRules  == 9     \* rules kept in one per-user chain
MaxHostPieces == 2 \* a crawled host is at most this many pieces long
MaxDeps   == 2     \* dependencies cached for one domain
MaxRank   == 100   \* the largest rank handed to calculate_points
MaxRounds == 20    \* rounds of the monitor loop
MaxLines  == 3     \* lines of rank.txt
MaxRuns   == 3     \* runs of update_leaderboard

(***************************************************************************)
(* Python str primitives                                                   *)
(***************************************************************************)
UpperChars == <<"A","B","C","D","E","F","G","H","I","J","K","L","M",
                "N","O","P","Q","R","S","T","U","V","W","X","Y","Z">>
LowerChars == <<"a","b","c","d","e","f","g","h","i","j","k","l","m",
                "n","o","p","q","r","s","t","u","v","w","x","y","z">>
Whitespace == {" ", "\t", "\n", "\r"}

\* str.lower() on one character
LowerChar(c) ==
    IF \E i \in 1..Len(UpperChars) : UpperChars[i] = c
    THEN LowerChars[CHOOSE i \in 1..Len(UpperChars) : UpperChars[i] = c]
    ELSE c

RECURSIVE Lower(_)
\* str.lower()
Lower(s) == IF s = << >> THEN << >> ELSE <<LowerChar(s[1])>> \o Lower(Tail(s))

\* s.startswith(p)
StartsWith(s, p) == Len(s) >= Len(p) /\ SubSeq(s, 1, Len(p)) = p

RECURSIVE Replace(_, _)
\* s.replace(old, ''): every non-overlapping occurrence, scanning left to right
Replace(s, old) ==
    IF Len(s) < Len(old) THEN s
    ELSE IF StartsWith(s, old)
         THEN Replace(SubSeq(s, Len(old) + 1, Len(s)), old)
         ELSE <<s[1]>> \o Replace(Tail(s), old)

RECURSIVE SplitFirst(_, _)
\* s.split(c)[0]: the part before the first c, all of s when there is none
SplitFirst(s, c) ==
    IF s = << >> THEN << >>
    ELSE IF s[1] = c THEN << >>
         ELSE <<s[1]>> \o SplitFirst(Tail(s), c)

RECURSIVE LStrip(_)
LStrip(s) ==
    IF s # << >> /\ s[1] \in Whitespace THEN LStrip(Tail(s)) ELSE s

RECURSIVE RStrip(_)
RStrip(s) ==
    IF s # << >> /\ s[Len(s)] \in Whitespace
    THEN RStrip(SubSeq(s, 1, Len(s) - 1)) ELSE s

\* str.strip()
Strip(s) == LStrip(RStrip(s))

\* c in s
Contains(s, c) == \E i \in 1..Len(s) : s[i] = c

HttpScheme  == <<"h","t","t","p",":","/","/">>
HttpsScheme == <<"h","t","t","p","s",":","/","/">>

(***************************************************************************)
(* ContestManager._normalize_domain                                        *)
(***************************************************************************)
\* a variant that trims before cutting path and port instead of after
normalize_domain_strip_first(domain) ==
    IF domain = << >> THEN << >>
    ELSE LET a == Strip(Replace(Replace(domain, HttpScheme), HttpsScheme))
             b == SplitFirst(a, "/")
             c == SplitFirst(b, ":")
             d == Lower(c)
         IN  IF d = << >> \/ ~Contains(d, ".") THEN << >> ELSE d

normalize_domain(domain) ==
    IF domain = << >> THEN << >>
    ELSE LET a == Replace(Replace(domain, HttpScheme), HttpsScheme)
             b == SplitFirst(a, "/")
             c == SplitFirst(b, ":")
             d == Strip(Lower(c))
         IN  IF d = << >> \/ ~Contains(d, ".") THEN << >> ELSE d

(***************************************************************************)
(* Inputs of the normaliser: concatenations of at most MaxPieces pieces    *)
(***************************************************************************)
Pieces == { HttpScheme, HttpsScheme, <<"H","T","T","P",":","/","/">>,
            <<"a">>, <<"B">>, <<".">>, <<"/">>, <<":">>, <<" ">> }

RECURSIVE Concats(_)
Concats(n) ==
    IF n = 0 THEN { << >> }
    ELSE LET shorter == Concats(n - 1)
         IN  shorter \cup { p \o s : p \in Pieces, s \in shorter }

Inputs == Concats(MaxPieces)

NormIdle == [x |-> << >>, r1 |-> << >>, r2 |-> << >>, pc |-> "idle"]

NormInit == norm \in { [x |-> i, r1 |-> << >>, r2 |-> << >>, pc |-> "start"] : i \in Inputs }

\* domain = self._normalize_domain(domain)
Normalize ==
    /\ norm.pc = "start"
    /\ norm' = [norm EXCEPT !.r1 = normalize_domain(norm.x), !.pc = "once"]
    /\ UNCHANGED <<store, whitelist_file, WHITELIST_FILE, wl_last, ipt, dns, fw_last, others>>

\* the normaliser applied to its own result
NormalizeAgain ==
    /\ norm.pc = "once"
    /\ norm' = [norm EXCEPT !.r2 = normalize_domain(norm.r1), !.pc = "twice"]
    /\ UNCHANGED <<store, whitelist_file, WHITELIST_FILE, wl_last, ipt, dns, fw_last, others>>

(***************************************************************************)
(* Ordering of strings (code points) and sorted()                          *)
(***************************************************************************)
AsciiOrder == <<"\t", "\n", "\r", " ", "#", "-", ".", "/",
                "0","1","2","3","4","5","6","7","8","9", ":">>
              \o UpperChars \o LowerChars

Ord(c) == CHOOSE i \in 1..Len(AsciiOrder) : AsciiOrder[i] = c

RECURSIVE LexLess(_, _)
\* a < b on Python strings
LexLess(a, b) ==
    IF b = << >> THEN FALSE
    ELSE IF a = << >> THEN TRUE
    ELSE IF a[1] = b[1] THEN LexLess(Tail(a), Tail(b))
    ELSE Ord(a[1]) < Ord(b[1])

RECURSIVE InsertSorted(_, _)
InsertSorted(x, q) ==
    IF q = << >> THEN <<x>>
    ELSE IF LexLess(q[1], x) THEN <<q[1]>> \o InsertSorted(x, Tail(q))
    ELSE <<x>> \o q

RECURSIVE Sorted(_)
\* sorted(q)
Sorted(q) == IF q = << >> THEN << >> ELSE InsertSorted(q[1], Sorted(Tail(q)))

Range(q) == { q[i] : i \in 1..Len(q) }

RECURSIVE Enumerations(_)
\* the orders in which a Python set can be iterated
Enumerations(S) ==
    IF S = {} THEN { << >> }
    ELSE UNION { { <<x>> \o q : q \in Enumerations(S \ {x}) } : x \in S }

(***************************************************************************)
(* Whitelist store of contest_manager/core/manager.py                      *)
(***************************************************************************)
HeaderLines ==
    << <<"#"," ","C","o","n","t","e","s","t"," ","E","n","v","i","r","o","n","m","e","n","t"," ","M","a","n","a","g","e","r"," ","-"," ","W","h","i","t","e","l","i","s","t","e","d"," ","S","i","t","e","s">>,
       <<"#"," ","A","d","d"," ","o","n","e"," ","d","o","m","a","i","n"," ","p","e","r"," ","l","i","n","e">>,
       <<"#"," ","C","o","m","m","e","n","t","s"," ","s","t","a","r","t"," ","w","i","t","h"," ","#">>,
       << >> >>

\* the lines load keeps: stripped, not blank, not a comment
DataLines(file) ==
    { Strip(file[i]) : i \in { j \in 1..Len(file) :
                                 Strip(file[j]) # << >> /\ Strip(file[j])[1] # "#" } }

\* ContestManager.load_whitelist
load_whitelist(file) == { Lower(l) : l \in DataLines(file) }

\* ContestManager.save_whitelist; domains is the set in its iteration order
save_whitelist(domains) == HeaderLines \o Sorted(domains)

\* ContestManager.list_domains
list_domains(file) ==
    Sorted(CHOOSE q \in Enumerations(load_whitelist(file)) : TRUE)

\* sys.exit(0 if success else 1)
ExitCode(success) == IF success THEN 0 ELSE 1

WlCall(impl, op, arg, result, before) ==
    [impl |-> impl, op |-> op, arg |-> arg, result |-> result,
     exit |-> ExitCode(result), before |-> before, wrote |-> FALSE]

\* a call that reached save_whitelist: the file was opened for writing
WlSaved(impl, op, arg, result, before) ==
    [WlCall(impl, op, arg, result, before) EXCEPT !.wrote = TRUE]

\* a remove that saves the set it loaded even when the domain is absent
remove_domain_always_saves(domain) ==
    LET d == normalize_domain(domain)
        domains == load_whitelist(whitelist_file)
    IN  /\ IF d = << >>
           THEN /\ whitelist_file' = whitelist_file
                /\ wl_last' = WlCall("package", "remove", domain, FALSE, whitelist_file)
           ELSE /\ whitelist_file' \in
                       { save_whitelist(q) : q \in Enumerations(domains \ {d}) }
                /\ wl_last' = WlSaved("package", "remove", domain, TRUE, whitelist_file)
        /\ UNCHANGED <<norm, store, WHITELIST_FILE, ipt, dns, fw_last, others>>

\* ContestManager.add_domain, and the exit code main gives its result
add_domain(domain) ==
    LET d == normalize_domain(domain)
        domains == load_whitelist(whitelist_file)
    IN  /\ IF d = << >>
           THEN /\ whitelist_file' = whitelist_file
                /\ wl_last' = WlCall("package", "add", domain, FALSE, whitelist_file)
           ELSE IF d \in domains
           THEN /\ whitelist_file' = whitelist_file
                /\ wl_last' = WlCall("package", "add", domain, TRUE, whitelist_file)
           ELSE /\ whitelist_file' \in
                       { save_whitelist(q) : q \in Enumerations(domains \cup {d}) }
                /\ wl_last' = WlSaved("package", "add", domain, TRUE, whitelist_file)
        /\ UNCHANGED <<norm, store, WHITELIST_FILE, ipt, dns, fw_last, others>>

\* ContestManager.remove_domain, and the exit code main gives its result
remove_domain(domain) ==
    LET d == normalize_domain(domain)
        domains == load_whitelist(whitelist_file)
    IN  /\ IF d = << >>
           THEN /\ whitelist_file' = whitelist_file
                /\ wl_last' = WlCall("package", "remove", domain, FALSE, whitelist_file)
           ELSE IF d \notin domains
           THEN /\ whitelist_file' = whitelist_file
                /\ wl_last' = WlCall("package", "remove", domain, TRUE, whitelist_file)
           ELSE /\ whitelist_file' \in
                       { save_whitelist(q) : q \in Enumerations(domains \ {d}) }
                /\ wl_last' = WlSaved("package", "remove", domain, TRUE, whitelist_file)
        /\ UNCHANGED <<norm, store, WHITELIST_FILE, ipt, dns, fw_last, others>>

(***************************************************************************)
(* Whitelist store of scripts/manager.py                                   *)
(***************************************************************************)
\* load_whitelist of scripts/manager.py: lines are not lowercased
scripts_load_whitelist(file) == DataLines(file)

\* save_whitelist of scripts/manager.py: no header
scripts_save_whitelist(domains) == Sorted(domains)

\* the inline clean-up of add_domain and remove_domain: scheme, path, case
scripts_clean(domain) ==
    Lower(SplitFirst(Replace(Replace(domain, HttpScheme), HttpsScheme), "/"))

\* add_domain of scripts/manager.py, and the exit code main gives its result
scripts_add_domain(domain) ==
    LET d == scripts_clean(domain)
        domains == scripts_load_whitelist(WHITELIST_FILE)
    IN  /\ IF domain = << >> \/ ~Contains(domain, ".")
           THEN /\ WHITELIST_FILE' = WHITELIST_FILE
                /\ wl_last' = WlCall("scripts", "add", domain, FALSE, WHITELIST_FILE)
           ELSE IF d \in domains
           THEN /\ WHITELIST_FILE' = WHITELIST_FILE
                /\ wl_last' = WlCall("scripts", "add", domain, TRUE, WHITELIST_FILE)
           ELSE /\ WHITELIST_FILE' \in
                       { scripts_save_whitelist(q) : q \in Enumerations(domains \cup {d}) }
                /\ wl_last' = WlSaved("scripts", "add", domain, TRUE, WHITELIST_FILE)
        /\ UNCHANGED <<norm, store, whitelist_file, ipt, dns, fw_last, others>>

\* remove_domain of scripts/manager.py, and the exit code main gives its result
scripts_remove_domain(domain) ==
    LET d == scripts_clean(domain)
        domains == scripts_load_whitelist(WHITELIST_FILE)
    IN  /\ IF d \notin domains
           THEN /\ WHITELIST_FILE' = WHITELIST_FILE
                /\ wl_last' = WlCall("scripts", "remove", domain, TRUE, WHITELIST_FILE)
           ELSE /\ WHITELIST_FILE' \in
                       { scripts_save_whitelist(q) : q \in Enumerations(domains \ {d}) }
                /\ wl_last' = WlSaved("scripts", "remove", domain, TRUE, WHITELIST_FILE)
        /\ UNCHANGED <<norm, store, whitelist_file, ipt, dns, fw_last, others>>

(***************************************************************************)
(* Arguments given to add and remove                                       *)
(***************************************************************************)
ArgUpperScheme == <<"H","T","T","P",":","/","/","E","x","a","m","p","l","e",".","c","o","m","/","p","a","t","h">>
ArgLowerScheme == <<"h","t","t","p",":","/","/","E","x","a","m","p","l","e",".","c","o","m","/","p","a","t","h">>
ArgPlain       == <<"e","x","a","m","p","l","e",".","c","o","m">>
ArgPort        == <<"a",".","b",":","8","0">>
ArgPathDot     == <<"h","t","t","p",":","/","/","a","/","b",".","c">>
ArgNoDot       == <<"a","b">>
ArgHash        == <<"#","a",".","b">>
ArgOther       == <<"b",".","a">>

\* spellings of the host example.com: case, scheme, path
Decorations == { ArgUpperScheme, ArgLowerScheme, ArgPlain }

Args == Decorations \cup { ArgPort, ArgPathDot, ArgNoDot, ArgHash, ArgOther, << >> }

WlIdle == [impl |-> "none", op |-> "none", arg |-> << >>, result |-> TRUE,
           exit |-> 0, before |-> << >>, wrote |-> FALSE]

(***************************************************************************)
(* save followed by load, on sets of domains the normaliser produces       *)
(***************************************************************************)
\* what the normaliser makes of the arguments: the domains add hands to save
DomainPool == { normalize_domain(a) : a \in Args } \ { << >> }

StoreIdle == [ins |-> << >>, file |-> << >>, loaded |-> {}, pc |-> "idle"]

StoreInit ==
    store \in { [ins |-> q, file |-> << >>, loaded |-> {}, pc |-> "start"] :
                q \in UNION { Enumerations(D) : D \in SUBSET DomainPool } }

\* self.save_whitelist(domains)
Save ==
    /\ store.pc = "start"
    /\ store' = [store EXCEPT !.file = save_whitelist(store.ins), !.pc = "saved"]
    /\ UNCHANGED <<norm, whitelist_file, WHITELIST_FILE, wl_last, ipt, dns, fw_last, others>>

\* self.load_whitelist()
Load ==
    /\ store.pc = "saved"
    /\ store' = [store EXCEPT !.loaded = load_whitelist(store.file), !.pc = "loaded"]
    /\ UNCHANGED <<norm, whitelist_file, WHITELIST_FILE, wl_last, ipt, dns, fw_last, others>>

(***************************************************************************)
(* iptables / ip6tables as NetworkRestrictor.run_command drives them.      *)
(* One table: jumps = owner-match jumps in OUTPUT to the user's out chain, *)
(* cin / cout = whether CONTEST_<USER>_IN / _OUT exist, rules = the rules  *)
(* of the out chain. A command returns the new table and its exit status.  *)
(***************************************************************************)
EmptyTable == [jumps |-> 0, cin |-> FALSE, cout |-> FALSE, rules |-> << >>]

Families == {"v4", "v6"}

RuleEstablished == [t |-> "established", ip |-> "-"]
RuleLoopback    == [t |-> "loopback",    ip |-> "-"]
RuleDnsUdp      == [t |-> "dns-udp",     ip |-> "-"]
RuleDnsTcp      == [t |-> "dns-tcp",     ip |-> "-"]
RuleReject      == [t |-> "reject",      ip |-> "-"]
RuleAccept(ip)  == [t |-> "accept-dest", ip |-> ip]

DefaultRules == <<RuleEstablished, RuleLoopback, RuleDnsUdp, RuleDnsTcp>>

Exists(t, chain) == IF chain = "in" THEN t.cin ELSE t.cout

\* -D OUTPUT -m owner --uid-owner <uid> -j <chain_out>: removes one matching rule
IptDeleteJump(t) ==
    IF t.jumps > 0 THEN [t |-> [t EXCEPT !.jumps = @ - 1], rc |-> 0]
    ELSE [t |-> t, rc |-> 1]

\* -F <chain>
IptFlush(t, chain) ==
    IF ~Exists(t, chain) THEN [t |-> t, rc |-> 1]
    ELSE IF chain = "out" THEN [t |-> [t EXCEPT !.rules = << >>], rc |-> 0]
    ELSE [t |-> t, rc |-> 0]

\* -X <chain>: refused while the chain holds rules or is the target of a jump
IptDeleteChain(t, chain) ==
    IF ~Exists(t, chain) THEN [t |-> t, rc |-> 1]
    ELSE IF chain = "in" THEN [t |-> [t EXCEPT !.cin = FALSE], rc |-> 0]
    ELSE IF t.rules # << >> \/ t.jumps > 0 THEN [t |-> t, rc |-> 1]
    ELSE [t |-> [t EXCEPT !.cout = FALSE], rc |-> 0]

\* -N <chain>
IptNewChain(t, chain) ==
    IF Exists(t, chain) THEN [t |-> t, rc |-> 1]
    ELSE IF chain = "in" THEN [t |-> [t EXCEPT !.cin = TRUE], rc |-> 0]
    ELSE [t |-> [t EXCEPT !.cout = TRUE], rc |-> 0]

\* -A <chain_out> <rule>
IptAppend(t, rule) ==
    IF ~t.cout THEN [t |-> t, rc |-> 1]
    ELSE [t |-> [t EXCEPT !.rules = Append(@, rule)], rc |-> 0]

\* -I <chain_out> <rule>: the rule becomes the first of the chain
IptInsert(t, rule) ==
    IF ~t.cout THEN [t |-> t, rc |-> 1]
    ELSE [t |-> [t EXCEPT !.rules = <<rule>> \o @], rc |-> 0]

\* -A OUTPUT -m owner --uid-owner <uid> -j <chain_out>
IptAppendJump(t) ==
    IF ~t.cout THEN [t |-> t, rc |-> 1]
    ELSE [t |-> [t EXCEPT !.jumps = @ + 1], rc |-> 0]

\* -L <chain_out> -n: two header lines, then one line per rule
IptList(t) ==
    IF ~t.cout THEN [rc |-> 1, lines |-> 0]
    ELSE [rc |-> 0, lines |-> Len(t.rules) + 2]

\* run_command(cmd, check=False): the exit status is ignored
Quiet(s, fam, r) == [s EXCEPT ![fam] = r.t]

\* run_command(cmd): check=True raises CalledProcessError on a non-zero status
Checked(s, fam, r) == [s |-> [s EXCEPT ![fam] = r.t], ok |-> r.rc = 0]

Ok(s) == [s |-> s, ok |-> TRUE]

\* the next statement runs only if nothing was raised before it
Then(ctx, F(_)) == IF ctx.ok THEN F(ctx.s) ELSE ctx

(***************************************************************************)
(* DNS                                                                     *)
(***************************************************************************)
IPv4s == {"93.184.216.34", "10.0.0.2", "10.0.0.3"}
IPv6s == {"2606:2800::1"}

\* ipaddress.ip_address(ip).version == 4
IsV4(ip) == ip \in IPv4s

Fam(ip) == IF IsV4(ip) THEN "v4" ELSE "v6"

Subdomains == {"www", "api", "cdn", "static", "assets"}

\* example.com -> {93.184.216.34}, no other name resolves
DnsExampleOnly == [n \in {"example.com"} |-> {"93.184.216.34"}]

\* dual-stack site, a subdomain, a dependency and one CDN of the fixed list
DnsDualStack ==
    [n \in {"example.com", "www.example.com", "dep.net", "gstatic.com"} |->
        CASE n = "example.com"     -> {"93.184.216.34", "2606:2800::1"}
          [] n = "www.example.com" -> {"10.0.0.2"}
          [] n = "dep.net"         -> {"10.0.0.2"}
          [] n = "gstatic.com"     -> {"10.0.0.3"}]

DnsWorlds == { DnsExampleOnly, DnsDualStack }

\* dns.resolver.resolve(name, 'A' / 'AAAA'); a DNSException adds nothing
Lookup(name) == IF name \in DOMAIN dns THEN dns[name] ELSE {}

\* NetworkRestrictor.resolve_domain_ips
resolve_domain_ips(domain) ==
    Lookup(domain) \cup UNION { Lookup(sub \o "." \o domain) : sub \in Subdomains }

essential_cdns ==
    { "cloudflare.com", "cloudfront.net", "fastly.com", "jsdelivr.net", "unpkg.com",
      "cdnjs.cloudflare.com", "fonts.googleapis.com", "fonts.gstatic.com",
      "typekit.net", "recaptcha.net", "hcaptcha.com", "gstatic.com",
      "mathjax.org", "cdn.mathjax.org", "ajax.googleapis.com" }

RECURSIVE DomainOrders(_)
DomainOrders(ds) ==
    IF ds = {} THEN { << >> }
    ELSE UNION { { p \o r : p \in Enumerations(resolve_domain_ips(d)),
                            r \in DomainOrders(ds \ {d}) } : d \in ds }

\* the orders in which "for domain in domains: for ip in ips" can meet the
\* addresses (domains that resolve to nothing add no address)
AddOrders(domains) ==
    DomainOrders({ d \in domains : resolve_domain_ips(d) # {} })

(***************************************************************************)
(* NetworkRestrictor                                                       *)
(***************************************************************************)
\* install_dependencies has no return statement
install_dependencies == "None"

\* "if not x" is taken for None and False
PyTruthy(v) == v = "True"

clear_chain(s, chain) ==
    LET a == Quiet(s, "v4", IptFlush(s.v4, chain))
        b == Quiet(a, "v4", IptDeleteChain(a.v4, chain))
        c == Quiet(b, "v6", IptFlush(b.v6, chain))
    IN  Quiet(c, "v6", IptDeleteChain(c.v6, chain))

\* NetworkRestrictor.clear_existing_rules
clear_existing_rules(s) ==
    LET a == Quiet(s, "v4", IptDeleteJump(s.v4))
    IN  clear_chain(clear_chain(a, "in"), "out")

\* NetworkRestrictor.create_chains
create_chains(s) ==
    LET a == Checked(s, "v4", IptNewChain(s.v4, "in"))
        b == Then(a, LAMBDA x : Checked(x, "v4", IptNewChain(x.v4, "out")))
        c == Then(b, LAMBDA x : Ok(Quiet(x, "v6", IptNewChain(x.v6, "in"))))
    IN  Then(c, LAMBDA x : Ok(Quiet(x, "v6", IptNewChain(x.v6, "out"))))

RECURSIVE AppendChecked(_, _, _)
\* a run of run_command(['iptables', '-A', ...]) calls, each with check=True
AppendChecked(ctx, fam, rules) ==
    IF rules = << >> THEN ctx
    ELSE AppendChecked(
             Then(ctx, LAMBDA x : Checked(x, fam, IptAppend(x[fam], rules[1]))),
             fam, Tail(rules))

RECURSIVE AppendQuiet(_, _, _)
AppendQuiet(s, fam, rules) ==
    IF rules = << >> THEN s
    ELSE AppendQuiet(Quiet(s, fam, IptAppend(s[fam], rules[1])), fam, Tail(rules))

\* NetworkRestrictor.setup_default_rules
setup_default_rules(s) ==
    Then(AppendChecked(Ok(s), "v4", DefaultRules),
         LAMBDA x : Ok(AppendQuiet(x, "v6", DefaultRules)))

RECURSIVE add_domain_rules(_, _)
\* NetworkRestrictor.add_domain_rules, the addresses met in this order; a
\* failing IPv4 append is caught per address, a failing IPv6 one is ignored
add_domain_rules(s, order) ==
    IF order = << >> THEN s
    ELSE add_domain_rules(
             Quiet(s, Fam(order[1]), IptAppend(s[Fam(order[1])], RuleAccept(order[1]))),
             Tail(order))

\* NetworkRestrictor.finalize_rules
finalize_rules(s) ==
    LET a == Checked(s, "v4", IptAppend(s.v4, RuleReject))
        b == Then(a, LAMBDA x : Ok(Quiet(x, "v6", IptAppend(x.v6, RuleReject))))
        c == Then(b, LAMBDA x : Checked(x, "v4", IptAppendJump(x.v4)))
    IN  Then(c, LAMBDA x : Ok(Quiet(x, "v6", IptAppendJump(x.v6))))

\* NetworkRestrictor.is_active
is_active(s) ==
    IF IptList(s.v4).rc # 0 THEN FALSE
    ELSE IptList(s.v4).lines > 2

\* the body of NetworkRestrictor.apply_restrictions
apply_restrictions_run(s, o1, o2) ==
    LET a == clear_existing_rules(s)
        b == create_chains(a)
        c == Then(b, setup_default_rules)
        d == Then(c, LAMBDA x : Ok(add_domain_rules(x, o1)))
        e == Then(d, LAMBDA x : Ok(add_domain_rules(x, o2)))
    IN  Then(e, finalize_rules)

\* the body of NetworkRestrictor.update_domain_ips
update_domain_ips_run(s, o1, o2) ==
    LET a == Checked(s, "v4", IptFlush(s.v4, "out"))
        b == Then(a, LAMBDA x : Ok(Quiet(x, "v6", IptFlush(x.v6, "out"))))
        c == Then(b, setup_default_rules)
        d == Then(c, LAMBDA x : Ok(add_domain_rules(x, o1)))
        e == Then(d, LAMBDA x : Ok(add_domain_rules(x, o2)))
    IN  Then(e, finalize_rules)

\* the body of NetworkRestrictor.remove_restrictions (every command check=False)
remove_restrictions_run(s) ==
    LET a == Quiet(s, "v4", IptDeleteJump(s.v4))
        b == Quiet(a, "v6", IptDeleteJump(a.v6))
    IN  clear_chain(clear_chain(b, "in"), "out")

\* the body of NetworkRestrictor.setup_iptables_chains
setup_iptables_chains_run(s) ==
    Then(create_chains(clear_existing_rules(s)), setup_default_rules)

RECURSIVE allow_ips(_, _)
\* the loop of NetworkRestrictor.allow_domain: -I, check=True for IPv4 only
allow_ips(ctx, order) ==
    IF order = << >> THEN ctx
    ELSE allow_ips(
             Then(ctx, LAMBDA x :
                 IF IsV4(order[1])
                 THEN Checked(x, "v4", IptInsert(x.v4, RuleAccept(order[1])))
                 ELSE Ok(Quiet(x, "v6", IptInsert(x.v6, RuleAccept(order[1]))))),
             Tail(order))

\* ContestRestrictor.apply_network_restrictions; o1, o2 are the orders in which
\* the addresses of the sites and of the dependencies are met
apply_network_restrictions(s, o1, o2) ==
    IF ~PyTruthy(install_dependencies) THEN [s |-> s, result |-> "False"]
    ELSE LET a == setup_iptables_chains_run(s)
         IN  IF ~a.ok THEN [s |-> a.s, result |-> "False"]
             ELSE LET b == allow_ips(allow_ips(a, o1), o2)
                      c == finalize_rules(b.s)
                  IN  [s |-> c.s, result |-> IF c.ok THEN "True" ELSE "False"]

Bounded(s) ==
    \A fam \in Families : s[fam].jumps <= MaxJumps /\ Len(s[fam].rules) <= MaxRules

ApplyOps == {"apply_restrictions", "update_domain_ips", "remove_restrictions"}

\* the calls ContestRestrictor.apply_network_restrictions makes
WrapperOps == {"setup_iptables_chains", "allow_domain", "apply_default_restrictions"}

FwIdle == [op |-> "none", result |-> "None", exit |-> -1, domains |-> {},
           wl |-> TRUE, only_apply |-> TRUE, only_wrappers |-> TRUE]

FwCall(op, result, exit, domains, wl) ==
    [op |-> op, result |-> result, exit |-> exit, domains |-> domains, wl |-> wl,
     only_apply |-> fw_last.only_apply /\ op \in ApplyOps,
     only_wrappers |-> fw_last.only_wrappers /\ op \in WrapperOps]

Sites == {"example.com"}
Deps  == {"dep.net"}

FwUnchanged == UNCHANGED <<norm, store, whitelist_file, WHITELIST_FILE, wl_last, dns, others>>

\* NetworkRestrictor.apply_restrictions(domains, dependencies)
apply_restrictions(domains, dependencies) ==
    /\ \E o1 \in AddOrders(domains \cup dependencies), o2 \in AddOrders(essential_cdns) :
          LET r == apply_restrictions_run(ipt, o1, o2)
          IN  /\ Bounded(r.s)
              /\ ipt' = r.s
              /\ fw_last' = FwCall("apply_restrictions",
                                   IF r.ok THEN "True" ELSE "raised", -1,
                                   domains \cup dependencies, TRUE)
    /\ FwUnchanged

\* NetworkRestrictor.update_domain_ips(domains)
update_domain_ips(domains) ==
    /\ \E o1 \in AddOrders(domains), o2 \in AddOrders(essential_cdns) :
          LET r == update_domain_ips_run(ipt, o1, o2)
          IN  /\ Bounded(r.s)
              /\ ipt' = r.s
              /\ fw_last' = FwCall("update_domain_ips",
                                   IF r.ok THEN "None" ELSE "raised", -1, domains, TRUE)
    /\ FwUnchanged

\* NetworkRestrictor.remove_restrictions
remove_restrictions ==
    /\ ipt' = remove_restrictions_run(ipt)
    /\ fw_last' = FwCall("remove_restrictions", "True", -1, {}, TRUE)
    /\ FwUnchanged

\* NetworkRestrictor.setup_iptables_chains
setup_iptables_chains ==
    LET r == setup_iptables_chains_run(ipt)
    IN  /\ ipt' = r.s
        /\ fw_last' = FwCall("setup_iptables_chains",
                             IF r.ok THEN "True" ELSE "False", -1, {}, TRUE)
        /\ FwUnchanged

\* NetworkRestrictor.allow_domain(domain)
allow_domain(domain) ==
    /\ \E order \in Enumerations(resolve_domain_ips(domain)) :
          LET r == allow_ips(Ok(ipt), order)
          IN  /\ Bounded(r.s)
              /\ ipt' = r.s
              /\ fw_last' = FwCall("allow_domain",
                                   IF r.ok /\ order # << >> THEN "True" ELSE "False",
                                   -1, {domain}, TRUE)
    /\ FwUnchanged

\* NetworkRestrictor.apply_default_restrictions
apply_default_restrictions ==
    LET r == finalize_rules(ipt)
    IN  /\ Bounded(r.s)
        /\ ipt' = r.s
        /\ fw_last' = FwCall("apply_default_restrictions",
                             IF r.ok THEN "True" ELSE "False", -1, {}, TRUE)
        /\ FwUnchanged

\* restrict.py --user U --apply as root with every tool installed:
\* ContestRestrictor.apply_restrictions and the exit code main gives its result
\* (dependency analysis and the USB step succeed)
restrict_command(whitelist_exists, sites, dependencies) ==
    /\ \E o1 \in AddOrders(sites), o2 \in AddOrders(dependencies) :
          LET net == apply_network_restrictions(ipt, o1, o2)
              success == whitelist_exists /\ PyTruthy(net.result)
          IN  /\ ipt' = IF whitelist_exists THEN net.s ELSE ipt
              /\ Bounded(ipt')
              /\ fw_last' = FwCall("restrict",
                                   IF success THEN "True" ELSE "False",
                                   ExitCode(success), sites \cup dependencies,
                                   whitelist_exists)
    /\ FwUnchanged

(***************************************************************************)
(* DependencyAnalyzer.filter_dependencies (scripts/utils and               *)
(* contest_manager/utils hold the same code)                               *)
(***************************************************************************)
blocked_keywords ==
    { <<"o","p","e","n","a","i">>,
      <<"c","h","a","t","g","p","t">>,
      <<"a","n","t","h","r","o","p","i","c">>,
      <<"c","l","a","u","d","e">>,
      <<"g","e","m","i","n","i">>,
      <<"b","a","r","d">>,
      <<"g","o","o","g","l","e">>,
      <<"b","i","n","g">>,
      <<"y","a","h","o","o">>,
      <<"d","u","c","k","d","u","c","k","g","o">>,
      <<"y","a","n","d","e","x">>,
      <<"b","a","i","d","u">>,
      <<"f","a","c","e","b","o","o","k">>,
      <<"t","w","i","t","t","e","r">>,
      <<"i","n","s","t","a","g","r","a","m">>,
      <<"l","i","n","k","e","d","i","n">>,
      <<"r","e","d","d","i","t">>,
      <<"d","i","s","c","o","r","d">>,
      <<"t","e","l","e","g","r","a","m">>,
      <<"w","h","a","t","s","a","p","p">>,
      <<"t","i","k","t","o","k">>,
      <<"y","o","u","t","u","b","e">>,
      <<"s","n","a","p","c","h","a","t">>,
      <<"g","i","t","h","u","b">>,
      <<"g","i","t","l","a","b">>,
      <<"s","t","a","c","k","o","v","e","r","f","l","o","w">>,
      <<"s","t","a","c","k","e","x","c","h","a","n","g","e">>,
      <<"m","e","d","i","u","m">>,
      <<"d","e","v",".","t","o">>,
      <<"h","a","c","k","e","r","n","e","w","s">>,
      <<"c","o","d","e","p","e","n">>,
      <<"j","s","f","i","d","d","l","e">>,
      <<"w","i","k","i","p","e","d","i","a">>,
      <<"w","3","s","c","h","o","o","l","s">>,
      <<"t","u","t","o","r","i","a","l","s","p","o","i","n","t">>,
      <<"f","r","e","e","c","o","d","e","c","a","m","p">>,
      <<"c","o","u","r","s","e","r","a">>,
      <<"u","d","e","m","y">>,
      <<"k","h","a","n">>,
      <<"e","d","x">>,
      <<"a","m","a","z","o","n">>,
      <<"e","b","a","y">>,
      <<"a","l","i","b","a","b","a">>,
      <<"s","h","o","p","i","f","y">>,
      <<"d","r","o","p","b","o","x">>,
      <<"o","n","e","d","r","i","v","e">>,
      <<"i","c","l","o","u","d">>,
      <<"m","e","g","a">>,
      <<"c","n","n">>,
      <<"b","b","c">>,
      <<"r","e","u","t","e","r","s">>,
      <<"n","e","w","s">>,
      <<"t","e","c","h","c","r","u","n","c","h">> }

essential_keywords ==
    { <<"c","d","n">>,
      <<"s","t","a","t","i","c">>,
      <<"a","s","s","e","t","s">>,
      <<"i","m","g">>,
      <<"c","s","s">>,
      <<"j","s">>,
      <<"f","o","n","t","s">>,
      <<"c","l","o","u","d","f","l","a","r","e">>,
      <<"c","l","o","u","d","f","r","o","n","t">>,
      <<"f","a","s","t","l","y">>,
      <<"j","s","d","e","l","i","v","r">>,
      <<"u","n","p","k","g">>,
      <<"b","o","o","t","s","t","r","a","p","c","d","n">>,
      <<"j","q","u","e","r","y">>,
      <<"a","j","a","x">>,
      <<"g","s","t","a","t","i","c">>,
      <<"c","a","p","t","c","h","a">>,
      <<"r","e","c","a","p","t","c","h","a">>,
      <<"h","c","a","p","t","c","h","a">>,
      <<"a","u","t","h">>,
      <<"o","a","u","t","h">>,
      <<"s","s","l">>,
      <<"t","l","s">>,
      <<"c","e","r","t">>,
      <<"s","e","c","u","r","i","t","y">>,
      <<"a","p","i">>,
      <<"w","e","b","h","o","o","k">>,
      <<"a","n","a","l","y","t","i","c","s">>,
      <<"t","r","a","c","k","i","n","g">>,
      <<"m","a","t","h","j","a","x">>,
      <<"k","a","t","e","x">>,
      <<"m","e","r","m","a","i","d">>,
      <<"h","i","g","h","l","i","g","h","t">>,
      <<"f","o","n","t","a","w","e","s","o","m","e">>,
      <<"t","y","p","e","k","i","t">>,
      <<"g","o","o","g","l","e","f","o","n","t","s">> }

\* the patterns of is_cdn
cdn_patterns ==
    { <<"c","d","n",".">>,
      <<"s","t","a","t","i","c",".">>,
      <<"a","s","s","e","t","s",".">>,
      <<"i","m","g",".">>,
      <<"c","s","s",".">>,
      <<"j","s",".">>,
      <<"f","o","n","t","s",".">>,
      <<"a","p","i",".">>,
      <<"a","u","t","h",".">>,
      <<"s","s","l",".">>,
      <<"c","a","p","t","c","h","a">> }

\* the names of is_common_cdn
common_cdns ==
    { <<"c","l","o","u","d","f","l","a","r","e">>,
      <<"f","a","s","t","l","y">>,
      <<"a","m","a","z","o","n">>,
      <<"m","i","c","r","o","s","o","f","t">>,
      <<"a","k","a","m","a","i">> }

\* keyword in s
InStr(keyword, s) ==
    \E i \in 1..(Len(s) - Len(keyword) + 1) : SubSeq(s, i, i + Len(keyword) - 1) = keyword

\* s.endswith(suffix)
EndsWith(s, suffix) ==
    Len(s) >= Len(suffix) /\ SubSeq(s, Len(s) - Len(suffix) + 1, Len(s)) = suffix

is_blocked(dep) == \E keyword \in blocked_keywords : InStr(keyword, Lower(dep))

is_essential(dep) == \E keyword \in essential_keywords : InStr(keyword, Lower(dep))

is_cdn(dep) == \E pattern \in cdn_patterns : InStr(pattern, Lower(dep))

is_common_cdn(dep) ==
    /\ EndsWith(dep, <<".","n","e","t">>) \/ EndsWith(dep, <<".","i","o">>)
    /\ \E cdn \in common_cdns : InStr(cdn, Lower(dep))

\* a filter that tests the essential keywords first and the blocked ones
\* only for the hosts that are not essential
filter_dependencies_essential_first(dependencies) ==
    { dep \in dependencies :
        IF is_essential(dep) \/ is_cdn(dep) \/ is_common_cdn(dep) THEN TRUE
        ELSE ~is_blocked(dep) /\ FALSE }

\* DependencyAnalyzer.filter_dependencies
filter_dependencies(dependencies) ==
    { dep \in dependencies :
        IF is_blocked(dep) THEN FALSE
        ELSE is_essential(dep) \/ is_cdn(dep) \/ is_common_cdn(dep) }

\* pieces of crawled host names
HostPieces == { <<"f","a","c","e","b","o","o","k">>,
                <<"F","a","c","e","B","o","o","k">>,
                <<"c","d","n">>,
                <<"s","t","a","t","i","c",".">>,
                <<"x">>,
                <<".","c","o","m">>,
                <<".","n","e","t">>,
                <<"a","m","a","z","o","n">>,
                <<"c","l","o","u","d","f","l","a","r","e">> }

RECURSIVE HostConcats(_)
HostConcats(n) ==
    IF n = 0 THEN { << >> }
    ELSE LET shorter == HostConcats(n - 1)
         IN  shorter \cup { p \o h : p \in HostPieces, h \in shorter }

Hosts == HostConcats(MaxHostPieces) \ { << >> }

\* a host the filter keeps
KeptHost == <<"c","d","n",".","x",".","o","r","g">>

FiltIdle == [dependencies |-> {}, essential_deps |-> {}, pc |-> "idle"]

FiltInit ==
    filt \in { [dependencies |-> D, essential_deps |-> {}, pc |-> "start"] :
               D \in { {h} : h \in Hosts } \cup { {h, KeptHost} : h \in Hosts } }

FiltUnchanged ==
    UNCHANGED <<norm, store, whitelist_file, WHITELIST_FILE, wl_last, ipt, dns, fw_last,
                cli, rep, dc, pts, run, more>>

\* essential_deps = self.filter_dependencies(dependencies)
FilterDependencies ==
    /\ filt.pc = "start"
    /\ filt' = [filt EXCEPT !.essential_deps = filter_dependencies(filt.dependencies),
                            !.pc = "done"]
    /\ FiltUnchanged

(***************************************************************************)
(* main of contest_manager/cli/main.py and of scripts/manager.py: what an  *)
(* invocation does before and after its root check. The work of a          *)
(* privileged command is kept as "system state touched".                   *)
(***************************************************************************)
Privileged == {"setup", "reset", "restrict", "unrestrict", "add", "remove"}

Commands == Privileged \cup {"status", "list", "dependencies", "none"}

\* what exists on disk and whether user, firewall or USB state was touched
Disk == [config_dir : BOOLEAN, whitelist : BOOLEAN, system : BOOLEAN]

CliIdle == [disk |-> [config_dir |-> FALSE, whitelist |-> FALSE, system |-> FALSE],
            impl |-> "none", cmd |-> "none", root |-> TRUE, exit |-> 0,
            before |-> [config_dir |-> FALSE, whitelist |-> FALSE, system |-> FALSE]]

\* ContestManager.__init__: mkdir(parents=True, exist_ok=True), then the default
\* whitelist when whitelist.txt does not exist. mkdir raises without permission;
\* _create_default_whitelist catches its own failure.
ContestManager_init(disk, writable) ==
    IF ~disk.config_dir /\ ~writable THEN [disk |-> disk, raised |-> TRUE]
    ELSE [disk |-> [disk EXCEPT !.config_dir = TRUE,
                               !.whitelist = disk.whitelist \/ writable],
          raised |-> FALSE]

\* the routed command once check_root has passed; success is its result
RunCommand(disk, cmd, success) ==
    IF cmd \in {"setup", "reset", "restrict", "unrestrict"}
    THEN [disk EXCEPT !.system = TRUE]
    ELSE IF cmd \in {"add", "remove"} /\ success
    THEN [disk EXCEPT !.whitelist = TRUE]
    ELSE disk

CliCall(impl, disk, cmd, root, exit) ==
    [disk |-> disk, impl |-> impl, cmd |-> cmd, root |-> root, exit |-> exit,
     before |-> cli.disk]

\* main of contest_manager/cli/main.py
cli_main(cmd, root, writable, success) ==
    /\ root => writable
    /\ LET made == ContestManager_init(cli.disk, writable)
       IN  cli' =
             IF cmd = "none" THEN CliCall("package", cli.disk, cmd, root, 1)
             ELSE IF made.raised THEN CliCall("package", made.disk, cmd, root, 1)
             ELSE IF cmd \in Privileged /\ ~root
             THEN CliCall("package", made.disk, cmd, root, 1)
             ELSE IF cmd \in {"list", "dependencies"}
             THEN CliCall("package", made.disk, cmd, root, 0)
             ELSE CliCall("package", RunCommand(made.disk, cmd, success), cmd, root,
                          ExitCode(success))
    /\ UNCHANGED <<norm, store, whitelist_file, WHITELIST_FILE, wl_last, ipt, dns,
                   fw_last, filt, rep, dc, pts, run, more>>

\* main of scripts/manager.py
scripts_main(cmd, root, writable, success) ==
    /\ root => writable
    /\ cli' =
          IF cmd = "none" THEN CliCall("scripts", cli.disk, cmd, root, 1)
          ELSE IF cmd \in Privileged /\ ~root
          THEN CliCall("scripts", cli.disk, cmd, root, 1)
          ELSE IF cmd \in {"list", "dependencies"}
          THEN CliCall("scripts", cli.disk, cmd, root, 0)
          ELSE IF cmd \in {"add", "remove"}
          THEN CliCall("scripts",
                       RunCommand(cli.disk, cmd, success /\ cli.disk.config_dir),
                       cmd, root, ExitCode(success /\ cli.disk.config_dir))
          ELSE CliCall("scripts", RunCommand(cli.disk, cmd, success), cmd, root,
                       ExitCode(success))
    /\ UNCHANGED <<norm, store, whitelist_file, WHITELIST_FILE, wl_last, ipt, dns,
                   fw_last, filt, rep, dc, pts, run, more>>

CliInit ==
    cli \in { [CliIdle EXCEPT !.disk = d, !.before = d] :
              d \in { x \in Disk : ~x.system /\ (x.whitelist => x.config_dir) } }

(***************************************************************************)
(* show_dependencies (ContestManager.show_dependencies and the function of *)
(* scripts/manager.py hold the same code): the numbers it prints           *)
(***************************************************************************)
ReportDomains == {"example.com", "b.a", "c.d"}

ReportDeps == {"fonts.gstatic.com", "cdn.b.a", "static.c.d"}

\* the lists json.dump writes for one domain: list(set_of_dependencies)
DepLists ==
    UNION { { q \in [1..n -> ReportDeps] : \A i, j \in 1..n : q[i] = q[j] => i = j } :
            n \in 0..MaxDeps }

\* .dependency_cache.json: a dict domain -> list, or no file
NoFile == [file |-> FALSE]

Caches ==
    {NoFile} \cup UNION { { [file |-> TRUE, dict |-> f] : f \in [K -> DepLists] } :
                          K \in SUBSET ReportDomains }

RECURSIVE CountLoop(_, _, _)
\* for domain in domains: if domain in cache: analyzed_count += 1;
\*                                            all_dependencies.update(cache[domain])
CountLoop(order, cache, acc) ==
    IF order = << >> THEN acc
    ELSE CountLoop(Tail(order), cache,
             IF order[1] \in DOMAIN cache
             THEN [all_dependencies |-> acc.all_dependencies \cup Range(cache[order[1]]),
                   analyzed_count |-> acc.analyzed_count + 1]
             ELSE acc)

\* the "x dependencies" / "No dependencies found" / "Not analyzed yet" lines
PerDomain(domains, cache) ==
    [d \in domains |-> IF d \in DOMAIN cache THEN Len(cache[d]) ELSE -1]

\* a show_dependencies that counts over the keys of the cache
show_dependencies_over_cache(domains, cache) ==
    IF domains = {} THEN [kind |-> "no domains"]
    ELSE IF ~cache.file THEN [kind |-> "no cache"]
    ELSE IF DOMAIN cache.dict = {} THEN [kind |-> "cache empty"]
    ELSE LET acc == CountLoop(CHOOSE q \in Enumerations(DOMAIN cache.dict) : TRUE,
                              cache.dict,
                              [all_dependencies |-> {}, analyzed_count |-> 0])
         IN  [kind |-> "report",
              total |-> Cardinality(acc.all_dependencies),
              whitelisted |-> Cardinality(domains),
              analyzed |-> acc.analyzed_count,
              per |-> PerDomain(domains, cache.dict)]

\* show_dependencies: what it prints
show_dependencies(domains, cache) ==
    IF domains = {} THEN [kind |-> "no domains"]
    ELSE IF ~cache.file THEN [kind |-> "no cache"]
    ELSE IF DOMAIN cache.dict = {} THEN [kind |-> "cache empty"]
    ELSE LET acc == CountLoop(CHOOSE q \in Enumerations(domains) : TRUE, cache.dict,
                              [all_dependencies |-> {}, analyzed_count |-> 0])
         IN  [kind |-> "report",
              total |-> Cardinality(acc.all_dependencies),
              whitelisted |-> Cardinality(domains),
              analyzed |-> acc.analyzed_count,
              per |-> PerDomain(domains, cache.dict)]

RepIdle == [domains |-> {}, cache |-> NoFile, out |-> [kind |-> "none"], pc |-> "idle"]

RepInit ==
    rep \in { [domains |-> W, cache |-> C, out |-> [kind |-> "none"], pc |-> "start"] :
              W \in SUBSET ReportDomains, C \in Caches }

\* manager.show_dependencies()
ShowDependencies ==
    /\ rep.pc = "start"
    /\ rep' = [rep EXCEPT !.out = show_dependencies(rep.domains, rep.cache),
                          !.pc = "done"]
    /\ UNCHANGED <<norm, store, whitelist_file, WHITELIST_FILE, wl_last, ipt, dns,
                   fw_last, filt, cli, dc, pts, run, more>>

(***************************************************************************)
(* The dependency cache: whitelist.txt and .dependency_cache.json under    *)
(* the managers' add / remove, restrict.py --apply [--force-refresh],      *)
(* restrict.py --monitor, ContestManager.apply_restrictions and            *)
(* unrestrict.py. A cache is kept as the set of its keys.                  *)
(***************************************************************************)
\* ContestRestrictor.load_whitelist: the comment test looks at the raw line
restrict_load_whitelist(file) ==
    { Strip(file[i]) : i \in { j \in 1..Len(file) :
                                 Strip(file[j]) # << >> /\ file[j][1] # "#" } }

\* the file after add_domain / remove_domain of scripts/manager.py
scripts_added(file, domain) ==
    LET d == scripts_clean(domain)
        domains == scripts_load_whitelist(file)
    IN  IF domain = << >> \/ ~Contains(domain, ".") \/ d \in domains THEN file
        ELSE scripts_save_whitelist(CHOOSE q \in Enumerations(domains \cup {d}) : TRUE)

scripts_removed(file, domain) ==
    LET d == scripts_clean(domain)
        domains == scripts_load_whitelist(file)
    IN  IF d \notin domains THEN file
        ELSE scripts_save_whitelist(CHOOSE q \in Enumerations(domains \ {d}) : TRUE)

\* the file after ContestManager.add_domain / remove_domain
package_added(file, domain) ==
    LET d == normalize_domain(domain)
        domains == load_whitelist(file)
    IN  IF d = << >> \/ d \in domains THEN file
        ELSE save_whitelist(CHOOSE q \in Enumerations(domains \cup {d}) : TRUE)

package_removed(file, domain) ==
    LET d == normalize_domain(domain)
        domains == load_whitelist(file)
    IN  IF d = << >> \/ d \notin domains THEN file
        ELSE save_whitelist(CHOOSE q \in Enumerations(domains \ {d}) : TRUE)

\* what the manager's own loader reads: the whitelist as add, remove and list see it
Whitelisted(impl, file) ==
    IF impl = "scripts" THEN scripts_load_whitelist(file) ELSE load_whitelist(file)

NoCache == [file |-> FALSE, keys |-> {}]

\* ContestRestrictor.load_dependency_cache: {} when there is no file
load_dependency_cache(cache) == IF cache.file THEN cache.keys ELSE {}

\* ContestRestrictor.analyze_dependencies: the cache file it saves. Every site
\* is a key afterwards, with its cached or its newly analysed list.
analyze_dependencies(cache, sites, force_refresh) ==
    [file |-> TRUE,
     keys |-> (IF force_refresh THEN {} ELSE load_dependency_cache(cache)) \cup sites]

\* arguments of add and remove
ArgSpaceHash == <<" ","#","a",".","b">>

DcArgs == { ArgPlain, ArgOther, ArgSpaceHash }

DcIdle == [impl |-> "none", exists |-> FALSE, file |-> << >>, ever |-> {},
           cache |-> NoCache, sites |-> {}, op |-> "none", before |-> NoCache]

DcInit ==
    dc \in { [DcIdle EXCEPT !.impl = "scripts"],
             [DcIdle EXCEPT !.impl = "package", !.exists = TRUE, !.file = HeaderLines] }

DcUnchanged ==
    UNCHANGED <<norm, store, whitelist_file, WHITELIST_FILE, wl_last, ipt, dns, fw_last,
                filt, cli, rep, pts, run, more>>

\* the whitelist file changed by add or remove
DcWrite(op, file) ==
    [dc EXCEPT !.exists = dc.exists \/ file # dc.file,
               !.file = file,
               !.ever = dc.ever \cup Whitelisted(dc.impl, file),
               !.op = op, !.before = dc.cache]

\* manager add <domain>
DcAdd(a) ==
    /\ dc' = DcWrite("add", IF dc.impl = "scripts" THEN scripts_added(dc.file, a)
                                                   ELSE package_added(dc.file, a))
    /\ DcUnchanged

\* manager remove <domain>
DcRemove(a) ==
    /\ dc' = DcWrite("remove", IF dc.impl = "scripts" THEN scripts_removed(dc.file, a)
                                                      ELSE package_removed(dc.file, a))
    /\ DcUnchanged

\* restrict.py --user U --apply [--force-refresh]: load_whitelist, then
\* analyze_dependencies (the firewall steps that follow leave the cache alone)
DcRestrict(force_refresh) ==
    /\ dc.impl = "scripts"
    /\ dc' = IF ~dc.exists THEN [dc EXCEPT !.op = "restrict", !.before = dc.cache]
             ELSE [dc EXCEPT !.cache = analyze_dependencies(
                                           dc.cache, restrict_load_whitelist(dc.file),
                                           force_refresh),
                             !.op = IF force_refresh THEN "refresh" ELSE "restrict",
                             !.before = dc.cache]
    /\ DcUnchanged

\* restrict.py --monitor: main loads the whitelist once
DcMonitorStart ==
    /\ dc.impl = "scripts"
    /\ dc' = [dc EXCEPT !.sites = IF dc.exists THEN restrict_load_whitelist(dc.file)
                                               ELSE dc.sites,
                        !.op = "monitor", !.before = dc.cache]
    /\ DcUnchanged

\* one round of monitor_and_update: smart_dependency_update refreshes a cache
\* that is missing or older than 24 hours
DcMonitorRound(stale) ==
    /\ dc.impl = "scripts"
    /\ dc.op \in {"monitor", "round"} \/ dc.sites # {}
    /\ dc' = IF stale \/ ~dc.cache.file
             THEN [dc EXCEPT !.cache = analyze_dependencies(dc.cache, dc.sites, TRUE),
                             !.op = "refresh", !.before = dc.cache]
             ELSE [dc EXCEPT !.op = "round", !.before = dc.cache]
    /\ DcUnchanged

\* ContestManager.apply_restrictions: network and USB steps, then a cache built
\* from list_domains and written over the file
DcPackageRestrict(network_ok, usb_ok) ==
    /\ dc.impl = "package"
    /\ dc' = IF network_ok /\ usb_ok
             THEN [dc EXCEPT !.cache = [file |-> TRUE, keys |-> load_whitelist(dc.file)],
                             !.op = "restrict", !.before = dc.cache]
             ELSE [dc EXCEPT !.op = "restrict", !.before = dc.cache]
    /\ DcUnchanged

\* ContestUnrestrictor.clean_cache_files: os.remove(cache_file)
DcCleanCache ==
    /\ dc.impl = "scripts"
    /\ dc' = [dc EXCEPT !.cache = NoCache, !.op = "unrestrict", !.before = dc.cache]
    /\ DcUnchanged

(***************************************************************************)
(* NetworkRestrictor, one run_command at a time                            *)
(*                                                                         *)
(* A command is [fam, cmd, chain, rule, check, caught]: check is the check *)
(* argument of run_command, caught says that the call stands in a try      *)
(* block of its own (the per-address try of add_domain_rules).             *)
(***************************************************************************)
NoRule == [t |-> "-", ip |-> "-"]

Cmd(fam, cmd, chain, rule, check, caught) ==
    [fam |-> fam, cmd |-> cmd, chain |-> chain, rule |-> rule,
     check |-> check, caught |-> caught]

\* what iptables / ip6tables does with the command on its table
RunIpt(t, c) ==
    CASE c.cmd = "-D" -> IptDeleteJump(t)
      [] c.cmd = "-F" -> IptFlush(t, c.chain)
      [] c.cmd = "-X" -> IptDeleteChain(t, c.chain)
      [] c.cmd = "-N" -> IptNewChain(t, c.chain)
      [] c.cmd = "-A" -> IptAppend(t, c.rule)
      [] c.cmd = "-A OUTPUT" -> IptAppendJump(t)

\* for chain in [chain_in, chain_out]: -F, -X with iptables, then with ip6tables
clear_chain_commands(chain) ==
    << Cmd("v4", "-F", chain, NoRule, FALSE, FALSE),
       Cmd("v4", "-X", chain, NoRule, FALSE, FALSE),
       Cmd("v6", "-F", chain, NoRule, FALSE, FALSE),
       Cmd("v6", "-X", chain, NoRule, FALSE, FALSE) >>

clear_existing_rules_commands ==
    << Cmd("v4", "-D", "out", NoRule, FALSE, FALSE) >>
        \o clear_chain_commands("in") \o clear_chain_commands("out")

create_chains_commands ==
    << Cmd("v4", "-N", "in",  NoRule, TRUE,  FALSE),
       Cmd("v4", "-N", "out", NoRule, TRUE,  FALSE),
       Cmd("v6", "-N", "in",  NoRule, FALSE, FALSE),
       Cmd("v6", "-N", "out", NoRule, FALSE, FALSE) >>

setup_default_rules_commands ==
    [i \in 1..Len(DefaultRules) |-> Cmd("v4", "-A", "out", DefaultRules[i], TRUE, FALSE)]
        \o [i \in 1..Len(DefaultRules) |->
               Cmd("v6", "-A", "out", DefaultRules[i], FALSE, FALSE)]

\* add_domain_rules: one -A per address, inside "try ... except Exception"
add_domain_rules_commands(order) ==
    [i \in 1..Len(order) |->
        Cmd(Fam(order[i]), "-A", "out", RuleAccept(order[i]), IsV4(order[i]), TRUE)]

finalize_rules_commands ==
    << Cmd("v4", "-A", "out", RuleReject, TRUE,  FALSE),
       Cmd("v6", "-A", "out", RuleReject, FALSE, FALSE),
       Cmd("v4", "-A OUTPUT", "out", NoRule, TRUE,  FALSE),
       Cmd("v6", "-A OUTPUT", "out", NoRule, FALSE, FALSE) >>

apply_restrictions_commands(o1, o2) ==
    clear_existing_rules_commands \o create_chains_commands
        \o setup_default_rules_commands
        \o add_domain_rules_commands(o1) \o add_domain_rules_commands(o2)
        \o finalize_rules_commands

update_domain_ips_commands(o1, o2) ==
    << Cmd("v4", "-F", "out", NoRule, TRUE,  FALSE),
       Cmd("v6", "-F", "out", NoRule, FALSE, FALSE) >>
        \o setup_default_rules_commands
        \o add_domain_rules_commands(o1) \o add_domain_rules_commands(o2)
        \o finalize_rules_commands

remove_restrictions_commands ==
    << Cmd("v4", "-D", "out", NoRule, FALSE, FALSE),
       Cmd("v6", "-D", "out", NoRule, FALSE, FALSE) >>
        \o clear_chain_commands("in") \o clear_chain_commands("out")

setup_iptables_chains_commands ==
    clear_existing_rules_commands \o create_chains_commands
        \o setup_default_rules_commands

\* the methods whose body is one "try ... except Exception: return False"
Guarded == {"setup_iptables_chains", "remove_restrictions"}

\* what the method returns when no exception leaves a command
Returned(op) == IF op = "update_domain_ips" THEN "None" ELSE "True"

\* the invocation of this call that failed for a reason outside the tables:
\* whether run_command printed it, whether it was a rule command (-A), and
\* the tables at that moment
NoFault == [taken |-> FALSE, printed |-> FALSE, rule |-> FALSE,
            s |-> [v4 |-> EmptyTable, v6 |-> EmptyTable]]

RunIdle == [op |-> "none", pc |-> "idle", todo |-> << >>, result |-> "None",
            skipped |-> 0, fault |-> NoFault]

RunUnchanged ==
    UNCHANGED <<norm, store, whitelist_file, WHITELIST_FILE, wl_last, dns, fw_last,
                filt, cli, rep, dc, pts, more>>

\* the method is entered: nothing has run yet
Entered(op, commands) ==
    [RunIdle EXCEPT !.op = op, !.pc = "running", !.todo = commands]

EnterApply(domains, dependencies) ==
    /\ run.pc # "running"
    /\ \E o1 \in AddOrders(domains \cup dependencies), o2 \in AddOrders(essential_cdns) :
          run' = Entered("apply_restrictions", apply_restrictions_commands(o1, o2))
    /\ UNCHANGED ipt
    /\ RunUnchanged

EnterUpdate(domains) ==
    /\ run.pc # "running"
    /\ \E o1 \in AddOrders(domains), o2 \in AddOrders(essential_cdns) :
          run' = Entered("update_domain_ips", update_domain_ips_commands(o1, o2))
    /\ UNCHANGED ipt
    /\ RunUnchanged

EnterRemove ==
    /\ run.pc # "running"
    /\ run' = Entered("remove_restrictions", remove_restrictions_commands)
    /\ UNCHANGED ipt
    /\ RunUnchanged

EnterSetup ==
    /\ run.pc # "running"
    /\ run' = Entered("setup_iptables_chains", setup_iptables_chains_commands)
    /\ UNCHANGED ipt
    /\ RunUnchanged

\* run_command on the next command. breaks: the invocation fails for a reason
\* outside the tables (the xtables lock is held, the binary is missing, ...).
\* A non-zero status is printed and raised only with check=True; the exception
\* is swallowed by the per-address try, turned into False by a guarded method
\* and leaves the other methods.
RunCommandStep(breaks) ==
    /\ run.pc = "running"
    /\ breaks => ~run.fault.taken
    /\ LET c    == Head(run.todo)
           rest == Tail(run.todo)
           r    == IF breaks THEN [t |-> ipt[c.fam], rc |-> 1]
                   ELSE RunIpt(ipt[c.fam], c)
           raises == r.rc # 0 /\ c.check
           leaves == raises /\ ~c.caught
           rule == c.cmd \in {"-A", "-A OUTPUT"}
           base == IF breaks
                   THEN [run EXCEPT !.fault = [taken |-> TRUE, printed |-> c.check,
                                               rule |-> rule,
                                               s |-> IF rule THEN ipt ELSE NoFault.s]]
                   ELSE run
       IN  /\ ipt' = [ipt EXCEPT ![c.fam] = r.t]
           /\ Bounded(ipt')
           /\ run' =
                IF leaves
                THEN [base EXCEPT !.todo = << >>, !.skipped = Len(rest),
                                  !.pc = IF run.op \in Guarded THEN "returned" ELSE "raised",
                                  !.result = IF run.op \in Guarded THEN "False" ELSE "raised"]
                ELSE IF rest = << >>
                THEN [base EXCEPT !.todo = << >>, !.pc = "returned",
                                  !.result = Returned(run.op)]
                ELSE [base EXCEPT !.todo = rest]
    /\ RunUnchanged

(***************************************************************************)
(* Ranker/scripts/points_calculator.py                                     *)
(***************************************************************************)
\* math.ceil(a / b) for a >= 0, b > 0
Ceil(a, b) == (a + b - 1) \div b

\* calculate_points: math.ceil(1600.0 / (rank + 7))
calculate_points(rank) == Ceil(1600, rank + 7)

PtsIdle == [rank |-> 0, points |-> 0, pc |-> "idle"]

PtsInit == pts \in { [rank |-> r, points |-> 0, pc |-> "start"] : r \in 1..MaxRank }

\* points[username] = calculate_points(rank)
CalculatePoints ==
    /\ pts.pc = "start"
    /\ pts' = [pts EXCEPT !.points = calculate_points(pts.rank), !.pc = "done"]
    /\ UNCHANGED <<norm, store, whitelist_file, WHITELIST_FILE, wl_last, ipt, dns,
                   fw_last, filt, cli, rep, dc, run, more>>

(***************************************************************************)
(* One restrict run, phase by phase: ContestRestrictor.apply_restrictions  *)
(* of scripts/restrict.py and ContestManager.apply_restrictions of         *)
(* contest_manager/core/manager.py, run as root with the tools installed   *)
(* and the whitelist file present.                                         *)
(*                                                                         *)
(* A crawl of one site is [kind, log, source]: log = the hosts of the      *)
(* requests the browser logged, source = the hosts found in the page       *)
(* source, kind = how far the browser got.                                 *)
(***************************************************************************)
earlier == <<norm, store, whitelist_file, WHITELIST_FILE, wl_last, ipt, dns, fw_last,
             filt, cli, rep, dc, pts, run>>

BlockedHost == <<"f","a","c","e","b","o","o","k",".","c","o","m">>

SourceHost == <<"s","t","a","t","i","c",".","x",".","o","r","g">>

\* loads: the page loads and the browser is closed; no_load: the browser does
\* not start or every URL times out; after_log: the browser dies once the
\* request log was read; at_quit: closing the browser raises
CrawlKinds == {"loads", "no_load", "after_log", "at_quit"}

\* filter_dependencies keeps or drops each host on its own; over the hosts of
\* the crawls it is worked out once
CrawlHosts == {KeptHost, BlockedHost, SourceHost}

KeptCrawlHosts == filter_dependencies(CrawlHosts)

crawl_filter(gathered) == gathered \cap KeptCrawlHosts

Crawls ==
    [kind : CrawlKinds, log : {{}, {KeptHost}, {KeptHost, BlockedHost}},
     source : {{}, {SourceHost}}]

\* DependencyAnalyzer.analyze_site of scripts/utils: what was gathered when the
\* try block is left is filtered and returned; only an exception of
\* driver.quit() in the finally clause leaves the method
analyze_site(w, site) ==
    LET gathered == CASE w.kind = "loads"     -> (w.log \ {site}) \cup w.source
                      [] w.kind = "no_load"   -> {}
                      [] w.kind = "after_log" -> w.log \ {site}
                      [] w.kind = "at_quit"   -> (w.log \ {site}) \cup w.source
    IN  [raised |-> w.kind = "at_quit", deps |-> crawl_filter(gathered)]

\* DependencyAnalyzer.analyze_domain of contest_manager/utils: the HAR file is
\* read only after the browser was closed without an exception
analyze_domain(w, domain) ==
    crawl_filter(IF w.kind = "loads" THEN w.log \ {domain} ELSE {})

NoMap == [s \in {} |-> {}]

Put(map, key, value) ==
    [k \in DOMAIN map \cup {key} |-> IF k = key THEN value ELSE map[k]]

\* .dependency_cache.json: file = it exists, map = site -> dependencies
NoCacheFile == [file |-> FALSE, map |-> NoMap]

\* ContestRestrictor.load_dependency_cache
LoadedCache(c) == IF c.file THEN c.map ELSE NoMap

RECURSIVE AnalyzeLoop(_, _, _, _)
\* the loop "for site in self.whitelisted_sites" of analyze_dependencies;
\* acc = [cache, all, invoked]: the cache dict, all_dependencies and the sites
\* handed to the analyzer
AnalyzeLoop(order, force_refresh, web, acc) ==
    IF order = << >> THEN acc
    ELSE LET site == Head(order)
         IN  IF site \in DOMAIN acc.cache /\ ~force_refresh
             THEN AnalyzeLoop(Tail(order), force_refresh, web,
                              [acc EXCEPT !.all = @ \cup acc.cache[site]])
             ELSE LET r == analyze_site(web[site], site)
                      dependencies == IF r.raised THEN {} ELSE r.deps
                  IN  AnalyzeLoop(Tail(order), force_refresh, web,
                                  [cache |-> Put(acc.cache, site, dependencies),
                                   all |-> acc.all \cup dependencies,
                                   invoked |-> acc.invoked \cup {site}])

\* analyze_dependencies as it would be if force_refresh were not looked at
analyze_all_ignores_force(cache, sites, force_refresh, web) ==
    AnalyzeLoop(CHOOSE q \in Enumerations(sites) : TRUE, FALSE, web,
                [cache |-> LoadedCache(cache), all |-> {}, invoked |-> {}])

\* ContestRestrictor.analyze_dependencies(force_refresh)
analyze_all(cache, sites, force_refresh, web) ==
    AnalyzeLoop(CHOOSE q \in Enumerations(sites) : TRUE, force_refresh, web,
                [cache |-> IF force_refresh THEN NoMap ELSE LoadedCache(cache),
                 all |-> {}, invoked |-> {}])

RECURSIVE PackageLoop(_, _, _)
\* step 3 of ContestManager.apply_restrictions: dependency_cache = {}, then
\* "for domain in whitelist"
PackageLoop(order, web, acc) ==
    IF order = << >> THEN acc
    ELSE LET deps == analyze_domain(web[Head(order)], Head(order))
         IN  PackageLoop(Tail(order), web,
                         [cache |-> Put(acc.cache, Head(order), deps),
                          all |-> acc.all \cup deps,
                          invoked |-> acc.invoked \cup {Head(order)}])

package_analyze_all(sites, web) ==
    PackageLoop(CHOOSE q \in Enumerations(sites) : TRUE, web,
                [cache |-> NoMap, all |-> {}, invoked |-> {}])

\* /etc/iptables/contest-rules-<user>.v4 and .v6, contest-restore-<user>.service,
\* "netfilter-persistent save"; each holds the number of the phase that wrote it
NoDisk == [v4 |-> 0, v6 |-> 0, unit |-> 0, helper |-> 0]

RunSites == { {ArgPlain}, {ArgPlain, ArgOther} }

CachedSets == {{}, {KeptHost}}

CacheFiles(sites) ==
    {NoCacheFile} \cup
    { [file |-> TRUE, map |-> m] : m \in UNION { [K -> CachedSets] : K \in SUBSET sites } }

RrIdle == [impl |-> "none", pc |-> "idle", log |-> << >>, sites |-> {}, web |-> NoMap,
           cache |-> NoCacheFile, before |-> NoCacheFile, force_refresh |-> FALSE,
           skip_usb |-> FALSE, skip_network |-> FALSE, invoked |-> {}, deps |-> {},
           allowed |-> {}, built |-> FALSE, success |-> TRUE, result |-> "None",
           disk |-> NoDisk, warned |-> FALSE]

RrStart(impl, sites, cache, force_refresh, skip_usb, skip_network) ==
    [RrIdle EXCEPT !.impl = impl, !.pc = "start", !.sites = sites, !.cache = cache,
                   !.before = cache, !.force_refresh = force_refresh,
                   !.skip_usb = skip_usb, !.skip_network = skip_network]

RrInit ==
    rr \in { RrStart("scripts", s, c, f, u, n) :
                s \in RunSites, c \in CacheFiles({ArgPlain}), f \in BOOLEAN,
                u \in BOOLEAN, n \in BOOLEAN }
           \cup { RrStart("package", s, c, FALSE, FALSE, FALSE) :
                     s \in RunSites, c \in CacheFiles({ArgPlain}) }

RrUnchanged == UNCHANGED <<earlier, mon, usb, lb>>

Did(phase) == [rr EXCEPT !.log = Append(@, phase)]

\* restrict.py: "if not skip_network: self.analyze_dependencies(force_refresh)"
ScriptsAnalyze ==
    /\ rr.impl = "scripts" /\ rr.pc = "start"
    /\ \/ /\ rr.skip_network
          /\ rr' = [rr EXCEPT !.pc = "network"]
       \/ /\ ~rr.skip_network
          /\ \E web \in [rr.sites -> Crawls] :
                LET a == analyze_all(rr.cache, rr.sites, rr.force_refresh, web)
                IN  rr' = [Did("analyze") EXCEPT
                              !.pc = "network", !.web = web,
                              !.cache = [file |-> TRUE, map |-> a.cache],
                              !.invoked = a.invoked, !.deps = a.all]
    /\ RrUnchanged

\* restrict.py: apply_network_restrictions stops at
\* "if not self.network_restrictor.install_dependencies()", which is None
ScriptsNetwork ==
    /\ rr.impl = "scripts" /\ rr.pc = "network"
    /\ rr' = IF rr.skip_network THEN [rr EXCEPT !.pc = "usb"]
             ELSE [Did("network") EXCEPT
                      !.pc = "usb",
                      !.success = PyTruthy(install_dependencies),
                      !.built = PyTruthy(install_dependencies),
                      !.allowed = IF PyTruthy(install_dependencies)
                                  THEN rr.sites \cup rr.deps ELSE {}]
    /\ RrUnchanged

\* restrict.py: "if not skip_usb: self.apply_usb_restrictions()"
ScriptsUsb(usb_ok) ==
    /\ rr.impl = "scripts" /\ rr.pc = "usb"
    /\ rr' = IF rr.skip_usb THEN [rr EXCEPT !.pc = "monitor"]
             ELSE [Did("usb") EXCEPT !.pc = "monitor", !.success = @ /\ usb_ok]
    /\ RrUnchanged

\* restrict.py: "if success: self.create_monitoring_service()", result unused
ScriptsMonitoring ==
    /\ rr.impl = "scripts" /\ rr.pc = "monitor"
    /\ rr' = IF rr.success THEN [Did("monitor") EXCEPT !.pc = "persist"]
             ELSE [rr EXCEPT !.pc = "persist"]
    /\ RrUnchanged

\* restrict.py: "if success: self.ensure_persistence()", result unused:
\* save_iptables_rules, create_startup_script, install_netfilter_persistent;
\* the first exception ends ensure_persistence with print_error
ScriptsPersist(save_ok, unit_ok, helper) ==
    /\ rr.impl = "scripts" /\ rr.pc = "persist"
    /\ rr' =
         IF ~rr.success THEN [rr EXCEPT !.pc = "done", !.result = "False"]
         ELSE LET n == Len(rr.log) + 1
              IN  [Did("persist") EXCEPT
                     !.pc = "done", !.result = "True",
                     !.disk = [v4 |-> IF save_ok THEN n ELSE 0,
                               v6 |-> IF save_ok THEN n ELSE 0,
                               unit |-> IF save_ok /\ unit_ok THEN n ELSE 0,
                               helper |-> IF save_ok /\ unit_ok /\ helper THEN n ELSE 0],
                     !.warned = FALSE]
    /\ RrUnchanged

\* manager.py step 1: apply_network_restrictions(username, whitelist_file) of
\* contest_manager/utils/network_restrictor.py: rules for the whitelist and
\* the dependencies the cache file holds at that moment
PackageNetwork(ok) ==
    /\ rr.impl = "package" /\ rr.pc = "start"
    /\ rr' = IF ok
             THEN [Did("network") EXCEPT
                      !.pc = "usb", !.built = TRUE,
                      !.allowed = rr.sites \cup
                                  UNION { LoadedCache(rr.cache)[k] :
                                          k \in DOMAIN LoadedCache(rr.cache) }]
             ELSE [Did("network") EXCEPT !.pc = "done", !.success = FALSE,
                                         !.result = "False"]
    /\ RrUnchanged

\* manager.py step 2: apply_usb_restrictions(username)
PackageUsb(ok) ==
    /\ rr.impl = "package" /\ rr.pc = "usb"
    /\ rr' = IF ok THEN [Did("usb") EXCEPT !.pc = "analyze"]
             ELSE [Did("usb") EXCEPT !.pc = "done", !.success = FALSE,
                                     !.result = "False"]
    /\ RrUnchanged

\* manager.py step 3: every whitelisted domain is analysed and the cache file
\* is written over
PackageAnalyze ==
    /\ rr.impl = "package" /\ rr.pc = "analyze"
    /\ \E web \in [rr.sites -> Crawls] :
          LET a == package_analyze_all(rr.sites, web)
          IN  rr' = [Did("analyze") EXCEPT
                        !.pc = "persist", !.web = web,
                        !.cache = [file |-> TRUE, map |-> a.cache],
                        !.invoked = a.invoked, !.deps = a.all]
    /\ RrUnchanged

\* manager.py step 4: "if not self._try_netfilter_persistent():
\* self._save_iptables_rules(username); self._create_restore_service(username)";
\* helper = the netfilter-persistent binary can be run. A failing save or
\* unit is a print_warning.
PackagePersist(helper, save_ok, unit_ok) ==
    /\ rr.impl = "package" /\ rr.pc = "persist"
    /\ LET n == Len(rr.log) + 1
       IN  rr' = [Did("persist") EXCEPT
                     !.pc = "done", !.result = "True",
                     !.disk = IF helper THEN [NoDisk EXCEPT !.helper = n]
                              ELSE [v4 |-> IF save_ok THEN n ELSE 0,
                                    v6 |-> IF save_ok THEN n ELSE 0,
                                    unit |-> IF unit_ok THEN n ELSE 0,
                                    helper |-> 0],
                     !.warned = ~helper /\ (~save_ok \/ ~unit_ok)]
    /\ RrUnchanged

(***************************************************************************)
(* restrict.py --monitor: ContestRestrictor.monitor_and_update             *)
(***************************************************************************)
\* time.sleep(1800) at the end of a round, time.sleep(300) after an exception
SleepInterval == 1800
ErrorInterval == 300

\* def update_domain_ips(self, domains: Set[str])
update_domain_ips_parameters == <<"domains">>

\* a call of a method with these positional arguments: TypeError unless there
\* is one argument per parameter
Call(parameters, arguments) ==
    IF Len(arguments) = Len(parameters) THEN "called" ELSE "TypeError"

MonIdle == [pc |-> "idle", round |-> 0, did |-> << >>, slept |-> 0,
            refreshed |-> FALSE, error |-> FALSE]

MonInit == mon = [MonIdle EXCEPT !.pc = "top", !.round = 1]

MonUnchanged == UNCHANGED <<earlier, rr, usb, lb>>

\* "if not self.smart_dependency_update()": the dependencies are analysed
\* again when the cache file is missing or older than 24 hours
MonRefresh(stale) ==
    /\ mon.pc = "top"
    /\ mon' = [mon EXCEPT !.pc = "refreshed", !.did = <<"refresh">>,
                          !.refreshed = stale, !.error = FALSE, !.slept = 0]
    /\ MonUnchanged

\* "self.network_restrictor.update_domain_ips()", then time.sleep(1800); an
\* exception goes to "except Exception": print_error, time.sleep(300)
MonUpdate ==
    /\ mon.pc = "refreshed"
    /\ mon' = IF Call(update_domain_ips_parameters, << >>) = "called"
              THEN [mon EXCEPT !.pc = "slept", !.did = Append(@, "update"),
                               !.slept = SleepInterval]
              ELSE [mon EXCEPT !.pc = "slept", !.error = TRUE,
                               !.slept = ErrorInterval]
    /\ MonUnchanged

\* while True: the next round
MonAgain ==
    /\ mon.pc = "slept"
    /\ mon.round < MaxRounds
    /\ mon' = [mon EXCEPT !.pc = "top", !.round = @ + 1]
    /\ MonUnchanged

\* except KeyboardInterrupt: break
MonInterrupt ==
    /\ mon.pc \in {"top", "refreshed", "slept"}
    /\ mon' = [mon EXCEPT !.pc = "stopped"]
    /\ MonUnchanged

(***************************************************************************)
(* USB rule files, monitoring units and cache file on one machine with two *)
(* contest users: USBRestrictor, restrict.py and unrestrict.py             *)
(***************************************************************************)
Users == {"alice", "bob"}

\* /etc/udev/rules.d/99-contest-usb-block.rules, /etc/polkit-1/rules.d/
\* 99-contest-usb-block.rules and contest-monitor.service hold the name of the
\* user their text was written for; /var/log/contest-usb.log, the timer
\* (absent, written, active) and <config_dir>/.dependency_cache.json
NoUsbDisk == [udev |-> "absent", polkit |-> "absent", log |-> FALSE,
              service |-> "absent", timer |-> "absent", cache |-> FALSE]

\* USBRestrictor.create_udev_rules: ok = open(path, 'w') and chmod succeed
create_udev_rules(d, user, ok) ==
    IF ok THEN [d EXCEPT !.udev = user] ELSE d

\* USBRestrictor.create_polkit_rules
create_polkit_rules(d, user, ok) ==
    IF ok THEN [d EXCEPT !.polkit = user] ELSE d

\* USBRestrictor.setup_logging: the log file is created if it does not exist
setup_logging(d) == [d EXCEPT !.log = TRUE]

\* USBRestrictor.apply_usb_restrictions; reload_ok = udevadm does not fail
apply_usb_restrictions_run(d, user, udev_ok, polkit_ok, reload_ok) ==
    [d |-> setup_logging(create_polkit_rules(create_udev_rules(d, user, udev_ok),
                                             user, polkit_ok)),
     result |-> udev_ok /\ polkit_ok /\ reload_ok]

\* remove_usb_restrictions as it would be if the polkit file were left alone
remove_usb_restrictions_keeps_polkit(d, udev_ok, polkit_ok, reload_ok) ==
    [d |-> [d EXCEPT !.udev = IF udev_ok THEN "absent" ELSE @],
     result |-> (udev_ok \/ d.udev = "absent")
                /\ (polkit_ok \/ d.polkit = "absent") /\ reload_ok]

\* USBRestrictor.remove_usb_restrictions: each file is removed if it exists;
\* udev_ok, polkit_ok = os.remove does not raise
remove_usb_restrictions_run(d, udev_ok, polkit_ok, reload_ok) ==
    [d |-> [d EXCEPT !.udev = IF udev_ok THEN "absent" ELSE @,
                     !.polkit = IF polkit_ok THEN "absent" ELSE @],
     result |-> (udev_ok \/ d.udev = "absent")
                /\ (polkit_ok \/ d.polkit = "absent") /\ reload_ok]

\* USBRestrictor.get_restriction_status
get_restriction_status(d) ==
    [udev_rules_active |-> d.udev # "absent",
     polkit_rules_active |-> d.polkit # "absent"]

\* ContestRestrictor.create_monitoring_service: both files are written, then
\* systemctl daemon-reload, enable, start; ok = none of the three fails
create_monitoring_service(d, user, ok) ==
    [d EXCEPT !.service = user, !.timer = IF ok THEN "active" ELSE "written"]

\* ContestUnrestrictor.remove_monitoring_services
remove_monitoring_services(d) ==
    [d EXCEPT !.service = "absent", !.timer = "absent"]

\* ContestUnrestrictor.clean_cache_files
clean_cache_files(d) == [d EXCEPT !.cache = FALSE, !.log = FALSE]

\* ContestUnrestrictor.check_restriction_status
check_restriction_status(d, network_active) ==
    [network_active |-> network_active,
     usb_active |-> get_restriction_status(d).udev_rules_active
                    \/ get_restriction_status(d).polkit_rules_active,
     monitoring_active |-> d.timer = "active"]

NoCall == [op |-> "none", user |-> "-", result |-> "None", clean |-> TRUE,
           before |-> NoUsbDisk]

UsbIdle == [pc |-> "idle", disk |-> NoUsbDisk, last |-> NoCall,
            prev |-> [op |-> "none", user |-> "-", clean |-> TRUE]]

UsbInit == usb = [UsbIdle EXCEPT !.pc = "ready"]

UsbUnchanged == UNCHANGED <<earlier, rr, mon, lb>>

UsbCalled(op, user, d, result, clean) ==
    [usb EXCEPT !.disk = d,
                !.prev = [op |-> usb.last.op, user |-> usb.last.user,
                          clean |-> usb.last.clean],
                !.last = [op |-> op, user |-> user, result |-> result,
                          clean |-> clean, before |-> usb.disk]]

\* apply_usb_restrictions(username)
UsbApply(user, udev_ok, polkit_ok, reload_ok) ==
    /\ usb.pc = "ready"
    /\ LET r == apply_usb_restrictions_run(usb.disk, user, udev_ok, polkit_ok, reload_ok)
       IN  usb' = UsbCalled("apply", user, r.d, IF r.result THEN "True" ELSE "False",
                            udev_ok /\ polkit_ok /\ reload_ok)
    /\ UsbUnchanged

\* remove_usb_restrictions(username)
UsbRemove(user, udev_ok, polkit_ok, reload_ok) ==
    /\ usb.pc = "ready"
    /\ LET r == remove_usb_restrictions_run(usb.disk, udev_ok, polkit_ok, reload_ok)
       IN  usb' = UsbCalled("remove", user, r.d, IF r.result THEN "True" ELSE "False",
                            udev_ok /\ polkit_ok /\ reload_ok)
    /\ UsbUnchanged

\* restrict.py --user <user> [--skip-network]: the analysis saves the cache
\* file, the network step fails at install_dependencies, the USB step runs,
\* and the monitoring units are written only "if success"
RestrictUser(user, skip_network, monitor_ok) ==
    /\ usb.pc = "ready"
    /\ LET a == IF skip_network THEN usb.disk ELSE [usb.disk EXCEPT !.cache = TRUE]
           success == skip_network \/ PyTruthy(install_dependencies)
           b == apply_usb_restrictions_run(a, user, TRUE, TRUE, TRUE).d
           c == IF success THEN create_monitoring_service(b, user, monitor_ok) ELSE b
       IN  usb' = UsbCalled("restrict", user, c, IF success THEN "True" ELSE "False",
                            TRUE)
    /\ UsbUnchanged

\* unrestrict.py --user <user> --remove [--force]; network_active = what
\* NetworkRestrictor(user).is_active() answers
UnrestrictUser(user, force, network_active) ==
    /\ usb.pc = "ready"
    /\ LET status == check_restriction_status(usb.disk, network_active)
           none == ~status.network_active /\ ~status.usb_active
                   /\ ~status.monitoring_active
           a == remove_usb_restrictions_run(usb.disk, TRUE, TRUE, TRUE).d
           b == clean_cache_files(remove_monitoring_services(a))
       IN  usb' = UsbCalled("unrestrict", user,
                            IF ~force /\ none THEN usb.disk ELSE b, "True", TRUE)
    /\ UsbUnchanged

(***************************************************************************)
(* Ranker: update_leaderboard over rank.txt and data/total_points.json.    *)
(* A dict is the sequence of its <<key, value>> items in insertion order.  *)
(***************************************************************************)
Names == { <<"a">>, <<"b">> }

\* the lines rank.txt is made of (without their newline)
RankLines == { <<"a">>, <<"b">>, <<" ", "a">>, << >>, <<"#", "a">> }

\* rank.txt: absent, or its lines
RankFiles ==
    { [exists |-> FALSE, lines |-> << >>] } \cup
    { [exists |-> TRUE, lines |-> q] :
         q \in UNION { [1..n -> RankLines] : n \in 0..MaxLines } }

DictKeys(d) == { d[i][1] : i \in 1..Len(d) }

DictGet(d, k) == d[CHOOSE i \in 1..Len(d) : d[i][1] = k][2]

\* d[k] = v
DictSet(d, k, v) ==
    IF k \in DictKeys(d)
    THEN [i \in 1..Len(d) |-> IF d[i][1] = k THEN <<k, v>> ELSE d[i]]
    ELSE Append(d, <<k, v>>)

RECURSIVE LoadRankLoop(_, _, _)
\* "for rank, line in enumerate(file, start=1)"
LoadRankLoop(file, rank, results) ==
    IF rank > Len(file) THEN results
    ELSE LET username == Strip(file[rank])
         IN  LoadRankLoop(file, rank + 1,
                 IF username # << >> /\ ~StartsWith(username, <<"#">>)
                 THEN Append(results, <<username, rank>>) ELSE results)

load_rank_data(file) == LoadRankLoop(file, 1, << >>)

RECURSIVE process_rank_data_loop(_, _)
process_rank_data_loop(rank_data, points) ==
    IF rank_data = << >> THEN points
    ELSE process_rank_data_loop(Tail(rank_data),
             DictSet(points, rank_data[1][1], calculate_points(rank_data[1][2])))

process_rank_data(rank_data) == process_rank_data_loop(rank_data, << >>)

RECURSIVE MergeLoop(_, _)
\* "for username, points in new_points.items()"
MergeLoop(items, merged) ==
    IF items = << >> THEN merged
    ELSE LET username == items[1][1]
             points == items[1][2]
         IN  MergeLoop(Tail(items),
                 IF username \in DictKeys(merged)
                 THEN DictSet(merged, username, DictGet(merged, username) + points)
                 ELSE DictSet(merged, username, points))

\* merge_points as it would be with "merged = existing_points"
merge_points_in_place(existing_points, new_points) ==
    [merged |-> MergeLoop(new_points, existing_points),
     existing_points |-> MergeLoop(new_points, existing_points)]

\* merge_points: the value returned and the dict passed as existing_points as
\* it is after the call; "merged = existing_points.copy()"
merge_points(existing_points, new_points) ==
    [merged |-> MergeLoop(new_points, existing_points),
     existing_points |-> existing_points]

RECURSIVE InsertByPoints(_, _)
\* x goes after every item with at least as many points: sorted() is stable
InsertByPoints(x, q) ==
    IF q = << >> THEN <<x>>
    ELSE IF q[1][2] >= x[2] THEN <<q[1]>> \o InsertByPoints(x, Tail(q))
    ELSE <<x>> \o q

RECURSIVE get_rankings_loop(_, _)
get_rankings_loop(items, sorted) ==
    IF items = << >> THEN sorted
    ELSE get_rankings_loop(Tail(items), InsertByPoints(items[1], sorted))

\* sorted(rankings, key=lambda x: x[1], reverse=True)
get_rankings(total_points) == get_rankings_loop(total_points, << >>)

\* load_saved_points: {} if data/total_points.json does not exist
load_saved_points(saved) == IF saved.file THEN saved.dict ELSE << >>

\* the names that stand on a line of the file
Present(file) == { Strip(file[i]) : i \in 1..Len(file) } \cap Names

\* the rank of a name of the file: the number of its last line
RankOf(file, name) ==
    CHOOSE i \in 1..Len(file) :
        /\ Strip(file[i]) = name
        /\ \A j \in (i + 1)..Len(file) : Strip(file[j]) # name

LbIdle == [pc |-> "idle", runs |-> 0, saved |-> [file |-> FALSE, dict |-> << >>],
           leaderboard |-> << >>, expected |-> [n \in Names |-> 0], appeared |-> {},
           last |-> [merged |-> FALSE, present |-> {}, before |-> << >>,
                     existing_points |-> << >>]]

LbInit == lb = [LbIdle EXCEPT !.pc = "menu"]

LbUnchanged == UNCHANGED <<earlier, rr, mon, usb>>

\* update_leaderboard()
UpdateLeaderboard(rank_txt) ==
    /\ lb.pc = "menu"
    /\ lb.runs < MaxRuns
    /\ LET file == rank_txt.lines
           rank_data == IF rank_txt.exists THEN load_rank_data(file) ELSE << >>
           new_points == process_rank_data(rank_data)
           existing_points == load_saved_points(lb.saved)
           m == merge_points(existing_points, new_points)
       IN  lb' = IF rank_data = << >>
                 THEN [lb EXCEPT !.runs = @ + 1,
                                 !.last = [merged |-> FALSE, present |-> {},
                                           before |-> existing_points,
                                           existing_points |-> existing_points]]
                 ELSE [lb EXCEPT
                          !.runs = @ + 1,
                          !.saved = [file |-> TRUE, dict |-> m.merged],
                          !.leaderboard = get_rankings(m.merged),
                          !.expected = [n \in Names |->
                                           @[n] + IF n \in Present(file)
                                                  THEN calculate_points(RankOf(file, n))
                                                  ELSE 0],
                          !.appeared = @ \cup Present(file),
                          !.last = [merged |-> TRUE, present |-> Present(file),
                                    before |-> existing_points,
                                    existing_points |-> m.existing_points]]
    /\ LbUnchanged

MoreOff == rr = RrIdle /\ mon = MonIdle /\ usb = UsbIdle /\ lb = LbIdle

OthersOff ==
    filt = FiltIdle /\ cli = CliIdle /\ rep = RepIdle /\ dc = DcIdle /\ pts = PtsIdle /\ run = RunIdle /\ MoreOff

(***************************************************************************)
(* Specifications                                                          *)
(***************************************************************************)
IptInit == [v4 |-> EmptyTable, v6 |-> EmptyTable]

WlOff == /\ whitelist_file = HeaderLines /\ WHITELIST_FILE = << >> /\ wl_last = WlIdle
FwOff == /\ ipt = IptInit /\ dns = DnsExampleOnly /\ fw_last = FwIdle

\* the normaliser on every input
InitNormalizer == NormInit /\ store = StoreIdle /\ WlOff /\ FwOff /\ OthersOff
NextNormalizer == Normalize \/ NormalizeAgain
SpecNormalizer == InitNormalizer /\ [][NextNormalizer]_vars

\* save then load on every set of domains, in every insertion order
InitStore == norm = NormIdle /\ StoreInit /\ WlOff /\ FwOff /\ OthersOff
NextStore == Save \/ Load
SpecStore == InitStore /\ [][NextStore]_vars

\* add and remove, from the empty whitelist a new ContestManager creates
InitWhitelist == norm = NormIdle /\ store = StoreIdle /\ WlOff /\ FwOff /\ OthersOff
NextWhitelist ==
    \/ \E a \in Args : add_domain(a)
    \/ \E a \in Args : remove_domain(a)
SpecWhitelist == InitWhitelist /\ [][NextWhitelist]_vars

\* the same calls on scripts/manager.py, from an absent whitelist.txt
NextScripts ==
    \/ \E a \in Args : scripts_add_domain(a)
    \/ \E a \in Args : scripts_remove_domain(a)
SpecScripts == InitWhitelist /\ [][NextScripts]_vars

\* add and remove on either manager: one run drives one of the two programs
InitManagers ==
    /\ norm = NormIdle /\ store = StoreIdle /\ FwOff /\ OthersOff
    /\ whitelist_file = HeaderLines /\ WHITELIST_FILE = << >>
    /\ wl_last \in { [WlIdle EXCEPT !.impl = i] : i \in {"package", "scripts"} }
NextManagers ==
    \/ \E a \in Args : wl_last.impl = "package" /\ add_domain(a)
    \/ \E a \in Args : wl_last.impl = "package" /\ remove_domain(a)
    \/ \E a \in Args : wl_last.impl = "scripts" /\ scripts_add_domain(a)
    \/ \E a \in Args : wl_last.impl = "scripts" /\ scripts_remove_domain(a)
SpecManagers == InitManagers /\ [][NextManagers]_vars

\* the dependency filter on sets of crawled hosts
InitFilter ==
    /\ norm = NormIdle /\ store = StoreIdle /\ WlOff /\ FwOff /\ FiltInit
    /\ cli = CliIdle /\ rep = RepIdle /\ dc = DcIdle /\ pts = PtsIdle /\ run = RunIdle /\ MoreOff
NextFilter == FilterDependencies
SpecFilter == InitFilter /\ [][NextFilter]_vars

\* invocations of the two command-line entry points, with and without root
InitCli ==
    /\ norm = NormIdle /\ store = StoreIdle /\ WlOff /\ FwOff /\ filt = FiltIdle
    /\ CliInit /\ rep = RepIdle /\ dc = DcIdle /\ pts = PtsIdle /\ run = RunIdle /\ MoreOff
NextCli ==
    \/ \E c \in Commands, r, w, ok \in BOOLEAN : cli_main(c, r, w, ok)
    \/ \E c \in Commands, r, w, ok \in BOOLEAN : scripts_main(c, r, w, ok)
SpecCli == InitCli /\ [][NextCli]_vars

\* the dependencies command on every whitelist and cache
InitReport ==
    /\ norm = NormIdle /\ store = StoreIdle /\ WlOff /\ FwOff /\ filt = FiltIdle
    /\ cli = CliIdle /\ RepInit /\ dc = DcIdle /\ pts = PtsIdle /\ run = RunIdle /\ MoreOff
NextReport == ShowDependencies
SpecReport == InitReport /\ [][NextReport]_vars

\* whitelist and dependency cache under the commands that touch them
InitCache ==
    /\ norm = NormIdle /\ store = StoreIdle /\ WlOff /\ FwOff /\ filt = FiltIdle
    /\ cli = CliIdle /\ rep = RepIdle /\ DcInit /\ pts = PtsIdle /\ run = RunIdle /\ MoreOff
NextCache ==
    \/ \E a \in DcArgs : DcAdd(a)
    \/ \E a \in DcArgs : DcRemove(a)
    \/ \E f \in BOOLEAN : DcRestrict(f)
    \/ DcMonitorStart
    \/ \E stale \in BOOLEAN : DcMonitorRound(stale)
    \/ \E n, u \in BOOLEAN : DcPackageRestrict(n, u)
    \/ DcCleanCache
SpecCache == InitCache /\ [][NextCache]_vars

\* the points formula on every rank
InitPoints ==
    /\ norm = NormIdle /\ store = StoreIdle /\ WlOff /\ FwOff /\ filt = FiltIdle
    /\ cli = CliIdle /\ rep = RepIdle /\ dc = DcIdle /\ PtsInit /\ run = RunIdle /\ MoreOff
NextPoints == CalculatePoints
SpecPoints == InitPoints /\ [][NextPoints]_vars

\* one restrict run of either implementation
InitRun ==
    /\ norm = NormIdle /\ store = StoreIdle /\ WlOff /\ FwOff
    /\ filt = FiltIdle /\ cli = CliIdle /\ rep = RepIdle /\ dc = DcIdle
    /\ pts = PtsIdle /\ run = RunIdle
    /\ RrInit /\ mon = MonIdle /\ usb = UsbIdle /\ lb = LbIdle
NextRun ==
    \/ ScriptsAnalyze
    \/ ScriptsNetwork
    \/ \E ok \in BOOLEAN : ScriptsUsb(ok)
    \/ ScriptsMonitoring
    \/ \E a, b, c \in BOOLEAN : ScriptsPersist(a, b, c)
    \/ \E ok \in BOOLEAN : PackageNetwork(ok)
    \/ \E ok \in BOOLEAN : PackageUsb(ok)
    \/ PackageAnalyze
    \/ \E a, b, c \in BOOLEAN : PackagePersist(a, b, c)
SpecRun == InitRun /\ [][NextRun]_vars

\* the monitor loop
InitMonitor ==
    /\ norm = NormIdle /\ store = StoreIdle /\ WlOff /\ FwOff
    /\ filt = FiltIdle /\ cli = CliIdle /\ rep = RepIdle /\ dc = DcIdle
    /\ pts = PtsIdle /\ run = RunIdle
    /\ rr = RrIdle /\ MonInit /\ usb = UsbIdle /\ lb = LbIdle
NextMonitor ==
    \/ \E stale \in BOOLEAN : MonRefresh(stale)
    \/ MonUpdate
    \/ MonAgain
    \/ MonInterrupt
SpecMonitor == InitMonitor /\ [][NextMonitor]_vars

\* apply, update and remove for one user, command by command, no command
\* failing for a reason outside the tables
InitSteps ==
    /\ norm = NormIdle /\ store = StoreIdle /\ WlOff
    /\ ipt = IptInit /\ dns \in DnsWorlds /\ fw_last = FwIdle
    /\ filt = FiltIdle /\ cli = CliIdle /\ rep = RepIdle /\ dc = DcIdle
    /\ pts = PtsIdle /\ run = RunIdle /\ MoreOff
NextSteps ==
    \/ \E d \in SUBSET Sites, e \in SUBSET Deps : EnterApply(d, e)
    \/ \E d \in SUBSET (Sites \cup Deps) : EnterUpdate(d)
    \/ EnterRemove
    \/ RunCommandStep(FALSE)
SpecSteps == InitSteps /\ [][NextSteps]_vars

\* the same with setup_iptables_chains, and at most one invocation of each
\* call failing for a reason outside the tables
NextFaults ==
    \/ \E d \in SUBSET Sites, e \in SUBSET Deps : EnterApply(d, e)
    \/ EnterRemove
    \/ EnterSetup
    \/ \E breaks \in BOOLEAN : RunCommandStep(breaks)
SpecFaults == InitSteps /\ [][NextFaults]_vars

\* the firewall calls for one user, from tables without the user's chains
InitFirewall ==
    /\ norm = NormIdle /\ store = StoreIdle /\ WlOff
    /\ ipt = IptInit /\ dns \in DnsWorlds /\ fw_last = FwIdle
    /\ OthersOff
NextFirewall ==
    \/ \E d \in SUBSET Sites, e \in SUBSET Deps : apply_restrictions(d, e)
    \/ \E d \in SUBSET (Sites \cup Deps) : update_domain_ips(d)
    \/ remove_restrictions
    \/ setup_iptables_chains
    \/ \E d \in Sites \cup Deps : allow_domain(d)
    \/ apply_default_restrictions
    \/ \E w \in BOOLEAN, d \in SUBSET Sites, e \in SUBSET Deps : restrict_command(w, d, e)
SpecFirewall == InitFirewall /\ [][NextFirewall]_vars

\* USB apply and remove, restrict and unrestrict, for two users of one machine
InitUsb ==
    /\ norm = NormIdle /\ store = StoreIdle /\ WlOff /\ FwOff
    /\ filt = FiltIdle /\ cli = CliIdle /\ rep = RepIdle /\ dc = DcIdle
    /\ pts = PtsIdle /\ run = RunIdle
    /\ rr = RrIdle /\ mon = MonIdle /\ UsbInit /\ lb = LbIdle
NextUsb ==
    \/ \E u \in Users, a, b, c \in BOOLEAN : UsbApply(u, a, b, c)
    \/ \E u \in Users, a, b, c \in BOOLEAN : UsbRemove(u, a, b, c)
    \/ \E u \in Users, n, m \in BOOLEAN : RestrictUser(u, n, m)
    \/ \E u \in Users, f, n \in BOOLEAN : UnrestrictUser(u, f, n)
SpecUsb == InitUsb /\ [][NextUsb]_vars

\* runs of update_leaderboard on every rank.txt
InitLeaderboard ==
    /\ norm = NormIdle /\ store = StoreIdle /\ WlOff /\ FwOff
    /\ filt = FiltIdle /\ cli = CliIdle /\ rep = RepIdle /\ dc = DcIdle
    /\ pts = PtsIdle /\ run = RunIdle
    /\ rr = RrIdle /\ mon = MonIdle /\ usb = UsbIdle /\ LbInit
NextLeaderboard == \E rank_txt \in RankFiles : UpdateLeaderboard(rank_txt)
SpecLeaderboard == InitLeaderboard /\ [][NextLeaderboard]_vars

(***************************************************************************)
(* Properties                                                              *)
(***************************************************************************)
Count(q, x) == Cardinality({ i \in 1..Len(q) : q[i] = x })

\* C1: after an add whose argument is a case/scheme/path spelling of the host
\* example.com, the add has succeeded and list holds "example.com" exactly once.
C1_AddDecorationsOnce ==
    (wl_last.impl = "package" /\ wl_last.op = "add" /\ wl_last.arg \in Decorations)
        => /\ wl_last.result
           /\ Count(list_domains(whitelist_file), ArgPlain) = 1

DefaultKinds == { DefaultRules[i].t : i \in 1..Len(DefaultRules) }

\* every default rule before every per-IP ACCEPT, the REJECT last
OrderOK(rules) ==
    /\ rules # << >>
    /\ rules[Len(rules)] = RuleReject
    /\ \A i, j \in 1..Len(rules) :
          (i < j /\ rules[i].t = "accept-dest") => rules[j].t \notin DefaultKinds

\* the rules have just been applied, by apply_restrictions or by the calls
\* of ContestRestrictor.apply_network_restrictions
Applied ==
    /\ \/ fw_last.only_apply /\ fw_last.op = "apply_restrictions"
       \/ fw_last.only_wrappers /\ fw_last.op = "apply_default_restrictions"
    /\ fw_last.result = "True"

\* C2: once the rules are applied, the user's output chain holds the default
\* rules first, then the per-IP ACCEPT rules, then the REJECT as its last rule;
\* for the whitelist {example.com} resolving to 93.184.216.34 alone it is
\* established, loopback, dns-udp, dns-tcp, accept 93.184.216.34, reject.
C2_RuleOrder ==
    /\ Applied => \A fam \in Families : ipt[fam].cout => OrderOK(ipt[fam].rules)
    /\ (/\ fw_last.op = "apply_restrictions" /\ fw_last.result = "True"
        /\ fw_last.domains = {"example.com"} /\ dns = DnsExampleOnly)
          => ipt.v4.rules = DefaultRules \o <<RuleAccept("93.184.216.34"), RuleReject>>

\* C3: after apply_restrictions and after every later apply_restrictions or
\* update_domain_ips, each table holds exactly one owner-match jump from
\* OUTPUT to the user's output chain.
C3_SingleBinding ==
    (/\ fw_last.only_apply
     /\ fw_last.op \in {"apply_restrictions", "update_domain_ips"}
     /\ fw_last.result # "raised")
        => \A fam \in Families : ipt[fam].jumps = 1

\* C4: after remove_restrictions following any sequence of apply and update
\* calls, no jump and neither chain is left in either table, and the status
\* check reports inactive.
C4_TeardownClean ==
    (fw_last.only_apply /\ fw_last.op = "remove_restrictions")
        => /\ \A fam \in Families :
                 ipt[fam].jumps = 0 /\ ~ipt[fam].cin /\ ~ipt[fam].cout
           /\ ~is_active(ipt)

\* the user's restrictions are in force in the IPv4 table
Active(s) ==
    /\ s.v4.cout /\ s.v4.rules # << >>
    /\ s.v4.rules[Len(s.v4.rules)] = RuleReject
    /\ s.v4.jumps >= 1

\* C5: with the whitelist file present and no command failing, the restrict
\* command ends with the user's restrictions applied and exit code 0.
C5_RestrictExitsZero ==
    (fw_last.op = "restrict" /\ fw_last.wl)
        => fw_last.exit = 0 /\ Active(ipt)

\* C6: the normaliser is idempotent: normalising its result changes nothing.
C6_Idempotent == norm.pc = "twice" => norm.r2 = norm.r1

C6_Witness == norm.pc = "twice" /\ norm.r1 # << >> /\ norm.r1 # norm.x

\* the reference normaliser: strip one leading scheme, cut at the first "/",
\* then at the first ":", lowercase, trim, empty unless a "." is left
StripLeadingScheme(x) ==
    IF StartsWith(x, HttpScheme) THEN SubSeq(x, Len(HttpScheme) + 1, Len(x))
    ELSE IF StartsWith(x, HttpsScheme) THEN SubSeq(x, Len(HttpsScheme) + 1, Len(x))
    ELSE x

RefNormalize(x) ==
    LET d == Strip(Lower(SplitFirst(SplitFirst(StripLeadingScheme(x), "/"), ":")))
    IN  IF ~Contains(d, ".") THEN << >> ELSE d

\* C7: on every input the normaliser returns what the reference normaliser
\* returns.
C7_MatchesReference == norm.pc # "start" => norm.r1 = RefNormalize(norm.x)

\* a Domain: lowercase, no scheme, path or port, with a "."
IsDomain(e) ==
    /\ e = Lower(e)
    /\ ~Contains(e, "/") /\ ~Contains(e, ":")
    /\ Contains(e, ".")

\* the data lines of a file, in file order
RECURSIVE DataSeq(_)
DataSeq(file) ==
    IF file = << >> THEN << >>
    ELSE IF Strip(file[1]) # << >> /\ Strip(file[1])[1] # "#"
         THEN <<Strip(file[1])>> \o DataSeq(Tail(file))
         ELSE DataSeq(Tail(file))

StoredOK(file) ==
    /\ \A e \in Range(DataSeq(file)) : IsDomain(e) /\ Count(DataSeq(file), e) = 1

\* C8: after any sequence of add and remove calls from the empty whitelist,
\* the stored whitelist has no duplicate entry and every entry is a Domain.
C8_StoredAreDomains == StoredOK(whitelist_file) /\ StoredOK(WHITELIST_FILE)

\* C9: load after save(D) returns exactly D, and the file save(D) writes is
\* the same for every insertion order of D.
C9_RoundTrip ==
    store.pc = "loaded"
        => /\ store.loaded = Range(store.ins)
           /\ \A q \in Enumerations(Range(store.ins)) : save_whitelist(q) = store.file

\* the whitelist file the last add or remove works on
FileOf(impl) == IF impl = "scripts" THEN WHITELIST_FILE ELSE whitelist_file

\* C10: an add whose argument fails normalisation (no Domain is left of it)
\* reports failure, exits non-zero and leaves the whitelist file as it was.
C10_MalformedRejected ==
    (wl_last.op = "add" /\ normalize_domain(wl_last.arg) = << >>)
        => /\ wl_last.result = FALSE
           /\ wl_last.exit # 0
           /\ FileOf(wl_last.impl) = wl_last.before

\* the whitelist the last call loaded before it acted
LoadedBefore ==
    IF wl_last.impl = "scripts" THEN scripts_load_whitelist(wl_last.before)
    ELSE load_whitelist(wl_last.before)

\* the last call was a remove naming a Domain that was not in the whitelist
RemovedAbsent ==
    /\ wl_last.op = "remove"
    /\ normalize_domain(wl_last.arg) # << >>
    /\ normalize_domain(wl_last.arg) \notin LoadedBefore
    /\ wl_last.impl = "scripts" => scripts_clean(wl_last.arg) \notin LoadedBefore

\* C11: a remove of a domain that is not in the whitelist returns True, does
\* not write the whitelist file and leaves its contents as they were.
C11_RemoveAbsentNoOp ==
    RemovedAbsent
        => /\ wl_last.result = TRUE
           /\ ~wl_last.wrote
           /\ FileOf(wl_last.impl) = wl_last.before

C11_Witness ==
    /\ RemovedAbsent
    /\ wl_last.impl = "package"
    /\ LoadedBefore # {}

\* C12: a candidate host that contains a blocked keyword is never in the
\* result of filter_dependencies, also when it contains an essential keyword
\* or a CDN pattern: blocked has precedence over essential.
C12_BlockedPrecedence ==
    filt.pc = "done"
        => \A dep \in filt.dependencies :
              (\E keyword \in blocked_keywords : InStr(keyword, Lower(dep)))
                  => dep \notin filt.essential_deps

\* a host with "facebook" and "cdn" was filtered next to a host that is kept
C12_Witness ==
    /\ filt.pc = "done"
    /\ \E dep \in filt.dependencies :
          /\ InStr(<<"f","a","c","e","b","o","o","k">>, Lower(dep))
          /\ InStr(<<"c","d","n">>, Lower(dep))
    /\ filt.essential_deps = {KeptHost}

\* C13: a privileged subcommand invoked without root exits with code 1 and,
\* when it exits, nothing on disk and no system state has been created or
\* changed by the invocation.
C13_NoRootNoChange ==
    (cli.cmd \in Privileged /\ ~cli.root)
        => cli.exit = 1 /\ cli.disk = cli.before

\* the whitelisted domains that have a cache entry
Analyzed == rep.domains \cap DOMAIN rep.cache.dict

\* C14: the report of the dependencies command gives, for whitelist W and
\* cache C, |W \cap keys(C)| analyzed domains, for each of them the number of
\* its cached dependencies, and as total the size of the union of C[d] over
\* d in W \cap keys(C); for C = {example.com: [fonts.gstatic.com]} and
\* W = {example.com} that is one analyzed domain, one dependency, total 1.
C14_ReportCounts ==
    /\ (rep.pc = "done" /\ rep.out.kind = "report")
          => /\ rep.out.analyzed = Cardinality(Analyzed)
             /\ \A d \in Analyzed :
                   rep.out.per[d] = Cardinality(Range(rep.cache.dict[d]))
             /\ rep.out.total =
                   Cardinality(UNION { Range(rep.cache.dict[d]) : d \in Analyzed })
    /\ (/\ rep.pc = "done" /\ rep.domains = {"example.com"}
        /\ rep.cache = [file |-> TRUE,
                        dict |-> [d \in {"example.com"} |-> <<"fonts.gstatic.com">>]])
          => /\ rep.out.kind = "report"
             /\ rep.out.analyzed = 1
             /\ rep.out.per["example.com"] = 1
             /\ rep.out.total = 1

\* a report over two whitelisted domains, one analyzed, next to a cache entry
\* of a domain that is not whitelisted
C14_Witness ==
    /\ rep.pc = "done" /\ rep.out.kind = "report"
    /\ Cardinality(rep.domains) = 2
    /\ Cardinality(Analyzed) = 1
    /\ DOMAIN rep.cache.dict \ rep.domains # {}
    /\ rep.out.total = 2

\* C15: every key of the dependency cache is a domain the whitelist holds or
\* has held.
C15_KeysEverWhitelisted == dc.cache.keys \subseteq dc.ever

\* C16: after restrict --apply or a forced refresh every key the cache file
\* had before is still in it; entries go only when the whole file is deleted.
C16_EntriesNeverDropped ==
    dc.op \in {"restrict", "refresh", "round"} => dc.before.keys \subseteq dc.cache.keys

\* C17: calculate_points(rank) is ceil(1800 / (rank + 5)) for every rank >= 1.
C17_PointsFormula ==
    pts.pc = "done" => pts.points = (1800 + (pts.rank + 5) - 1) \div (pts.rank + 5)

\* what apply_restrictions(domains, ...) builds from tables without the user's
\* chains, for each order in which the addresses can be met
FromUninitialized(domains) ==
    { apply_restrictions_run(IptInit, o1, o2).s :
          o1 \in AddOrders(domains), o2 \in AddOrders(essential_cdns) }

\* C18: an apply_restrictions made while the restrictions are Active (after
\* apply and update calls only) leaves exactly the tables that the same apply
\* builds from Uninitialized: same chains, same rules, no jump left over.
C18_ReapplySame ==
    [][ (/\ fw_last.only_apply /\ Active(ipt)
         /\ fw_last'.op = "apply_restrictions" /\ fw_last'.result = "True")
            => ipt' \in FromUninitialized(fw_last'.domains) ]_vars

\* C19: whenever a table holds the owner-match jump to the user's output
\* chain, that chain exists and its last rule is the catch-all REJECT, at
\* every step of apply_restrictions, update_domain_ips and remove_restrictions.
C19_BoundChainRejects ==
    \A fam \in Families :
        ipt[fam].jumps > 0
            => /\ ipt[fam].cout
               /\ ipt[fam].rules # << >>
               /\ ipt[fam].rules[Len(ipt[fam].rules)] = RuleReject

IsPrefix(a, b) == Len(a) <= Len(b) /\ SubSeq(b, 1, Len(a)) = a

\* C20: when one iptables / ip6tables invocation of apply_restrictions,
\* setup_iptables_chains or remove_restrictions has failed, the call ends with
\* the failure printed, every remaining command attempted, the rules that
\* were in the chains at the failure still there, and the result False.
C20_FailureReported ==
    (run.pc \in {"returned", "raised"} /\ run.fault.taken)
        => /\ run.fault.printed
           /\ run.skipped = 0
           /\ run.fault.rule =>
                  \A fam \in Families :
                      /\ IsPrefix(run.fault.s[fam].rules, ipt[fam].rules)
                      /\ run.fault.s[fam].jumps <= ipt[fam].jumps
           /\ run.result = "False"

Done(phase) == \E i \in 1..Len(rr.log) : rr.log[i] = phase

Before(a, b) == \E i, j \in 1..Len(rr.log) : i < j /\ rr.log[i] = a /\ rr.log[j] = b

\* C21: in a finished restrict run that analysed the whitelist and built the
\* rules, the analysis came before the rule building, every dependency found
\* or cached in the run is among the domains given ACCEPT rules, and
\* persistence came after the rule building.
C21_AnalysisBeforeRules ==
    (rr.pc = "done" /\ rr.built /\ Done("analyze"))
        => /\ Before("analyze", "network")
           /\ rr.deps \subseteq rr.allowed
           /\ Done("persist") => Before("network", "persist")

\* the addresses the domains resolve to
Resolved(domains) == UNION { resolve_domain_ips(d) : d \in domains }

\* the destinations of the ACCEPT rules of a chain
AcceptIPs(rules) ==
    { rules[i].ip : i \in { j \in 1..Len(rules) : rules[j].t = "accept-dest" } }

\* C22: after an apply (NetworkRestrictor.apply_restrictions that returned, or
\* the restrict command with the whitelist present), each table's output
\* chain holds exactly one ACCEPT rule for every address of its family that
\* the whitelist, the dependencies or the essential CDNs resolve to, and no
\* ACCEPT rule for any other address.
C22_AcceptRules ==
    (\/ fw_last.op = "apply_restrictions" /\ fw_last.result = "True"
     \/ fw_last.op = "restrict" /\ fw_last.wl)
        => \A fam \in Families :
              /\ AcceptIPs(ipt[fam].rules) =
                     { ip \in Resolved(fw_last.domains \cup essential_cdns) : Fam(ip) = fam }
              /\ \A ip \in AcceptIPs(ipt[fam].rules) :
                     Count(ipt[fam].rules, RuleAccept(ip)) = 1

\* C23: a round of the monitor loop that reaches its sleep has refreshed the
\* dependencies, then updated the rules, and sleeps for the fixed interval;
\* the loop stops only on a keyboard interrupt.
C23_RoundUpdatesRules ==
    mon.pc = "slept" => /\ mon.did = <<"refresh", "update">>
                        /\ mon.slept = SleepInterval

\* the crawl of the site did not run to its end
Failed(site) == rr.web[site].kind # "loads"

\* the sites the run has to hand to the analyzer
ToAnalyze ==
    IF rr.impl = "package" \/ rr.force_refresh THEN rr.sites
    ELSE rr.sites \ DOMAIN LoadedCache(rr.before)

\* C24: after the analysis of a batch, every site whose analysis failed has
\* an empty dependency set in the cache, and every site of the batch that
\* had to be analysed was handed to the analyzer and is a key of the cache.
C24_FailureKeepsBatch ==
    Done("analyze")
        => /\ \A site \in rr.invoked : Failed(site) => rr.cache.map[site] = {}
           /\ rr.invoked = ToAnalyze
           /\ rr.sites \subseteq DOMAIN rr.cache.map

\* what a fresh analysis of the site stores for it
FreshEntry(site) ==
    LET r == analyze_site(rr.web[site], site)
    IN  IF r.raised THEN {} ELSE r.deps

\* C25: analyze_dependencies without force_refresh does not hand a site that
\* has a cache entry (an empty one included) to the analyzer, keeps the entry
\* and uses the cached set; with force_refresh every whitelisted site is
\* analysed and its entry is the result of that analysis.
C25_CacheAndForce ==
    (rr.impl = "scripts" /\ Done("analyze"))
        => LET old == LoadedCache(rr.before)
           IN  /\ rr.deps = UNION { rr.cache.map[site] : site \in rr.sites }
               /\ IF rr.force_refresh
                  THEN /\ rr.invoked = rr.sites
                       /\ \A site \in rr.sites : rr.cache.map[site] = FreshEntry(site)
                  ELSE /\ rr.invoked = rr.sites \ DOMAIN old
                       /\ \A site \in rr.sites \cap DOMAIN old :
                              rr.cache.map[site] = old[site]
                       /\ \A site \in rr.invoked : rr.cache.map[site] = FreshEntry(site)

\* a run without force_refresh that found an empty cache entry for one site,
\* whose crawl would have given a dependency, and analysed the other site
C25_Witness ==
    /\ rr.impl = "scripts" /\ Done("analyze") /\ ~rr.force_refresh
    /\ \E site \in rr.sites \cap DOMAIN LoadedCache(rr.before) :
          /\ LoadedCache(rr.before)[site] = {}
          /\ FreshEntry(site) # {}
          /\ site \notin rr.invoked
    /\ \E site \in rr.invoked : rr.cache.map[site] # {}

\* a forced run that replaced a cache entry by a different analysis result
C25_ForcedWitness ==
    /\ rr.impl = "scripts" /\ Done("analyze") /\ rr.force_refresh
    /\ \E site \in rr.sites \cap DOMAIN LoadedCache(rr.before) :
          rr.cache.map[site] # LoadedCache(rr.before)[site]

\* the place of the phase in the log of the run, 0 if it did not run
Place(phase) ==
    IF Done(phase) THEN CHOOSE i \in 1..Len(rr.log) : rr.log[i] = phase ELSE 0

\* C26: a run that built the rules and returns success has run the
\* persistence step after them; unless a warning or error was reported for
\* a command of that step, both snapshot files were written by it, and the
\* persistence helper was used or the boot-time unit was written; a run that
\* reached the persistence step returns success whatever happened in it.
C26_SnapshotsThenHelperOrUnit ==
    /\ (rr.pc = "done" /\ rr.built /\ rr.result = "True")
           => /\ Done("persist") /\ Before("network", "persist")
              /\ (~rr.warned /\ (rr.disk.helper > 0 \/ rr.disk.unit > 0))
                    => /\ rr.disk.v4 = Place("persist")
                       /\ rr.disk.v6 = Place("persist")
    /\ (rr.pc = "done" /\ Done("persist")) => rr.result = "True"

\* C27: the status check reports active exactly when the user's output chain
\* exists, ends in REJECT and is bound to OUTPUT by the owner-match jump.
C27_StatusMeansInForce == is_active(ipt) <=> Active(ipt)

\* the two rule files of the USB restriction
RuleFiles(d) == <<d.udev, d.polkit>>

\* C28: with no command failing, a second apply for the same user leaves
\* the two rule files as the first left them; a remove that finds both files
\* absent succeeds and changes nothing; a remove after an apply leaves both
\* files absent and the USB status inactive.
C28_UsbIdempotent ==
    /\ (/\ usb.last.op = "apply" /\ usb.prev.op = "apply"
        /\ usb.last.user = usb.prev.user /\ usb.last.clean /\ usb.prev.clean)
           => /\ RuleFiles(usb.disk) = RuleFiles(usb.last.before)
              /\ usb.last.result = "True"
    /\ (/\ usb.last.op = "remove" /\ usb.last.clean
        /\ RuleFiles(usb.last.before) = <<"absent", "absent">>)
           => /\ usb.last.result = "True"
              /\ usb.disk = usb.last.before
    /\ (usb.last.op = "remove" /\ usb.prev.op = "apply" /\ usb.last.clean)
           => /\ RuleFiles(usb.disk) = <<"absent", "absent">>
              /\ ~get_restriction_status(usb.disk).udev_rules_active
              /\ ~get_restriction_status(usb.disk).polkit_rules_active
              /\ usb.last.result = "True"

\* two applies for one user in a row, both rule files written for that user
C28_Witness ==
    /\ usb.last.op = "apply" /\ usb.prev.op = "apply"
    /\ usb.last.user = usb.prev.user /\ usb.last.clean /\ usb.prev.clean
    /\ RuleFiles(usb.disk) = <<usb.last.user, usb.last.user>>

\* a remove after an apply that wrote both files
C28_RemoveWitness ==
    /\ usb.last.op = "remove" /\ usb.prev.op = "apply" /\ usb.last.clean
    /\ \E u \in Users : RuleFiles(usb.last.before) = <<u, u>>

\* a remove that found no rule file
C28_AbsentWitness ==
    /\ usb.last.op = "remove" /\ usb.last.clean
    /\ RuleFiles(usb.last.before) = <<"absent", "absent">>

\* both rule files are the ones written for the user
RestrictedFor(d, user) == d.udev = user /\ d.polkit = user

\* C29: a call for one user leaves what belongs to another user as it was:
\* the other user's USB rule files, monitoring service and timer, and the
\* dependency cache file.
C29_PerUserIsolation ==
    \A A \in Users :
        (usb.last.op # "none" /\ usb.last.user # A)
            => LET b == usb.last.before
                   d == usb.disk
               IN  /\ RestrictedFor(b, A) => RestrictedFor(d, A)
                   /\ b.service = A => (d.service = A /\ d.timer = b.timer)
                   /\ (b.cache /\ RestrictedFor(b, A)) => d.cache

\* C30: every name that stood in rank.txt in some run has as saved total the
\* sum, over those runs, of the points of its rank in the run, and no other
\* name has a total; a name that was not in the file of the last run has the
\* total it had before; merge_points leaves its existing_points argument as
\* it was.
C30_TotalsAreSums ==
    /\ DictKeys(lb.saved.dict) = lb.appeared
    /\ \A n \in lb.appeared : DictGet(lb.saved.dict, n) = lb.expected[n]
    /\ lb.last.merged
          => /\ \A n \in DictKeys(lb.last.before) \ lb.last.present :
                   DictGet(lb.saved.dict, n) = DictGet(lb.last.before, n)
             /\ lb.last.existing_points = lb.last.before

\* a run that added to a saved total while another name, absent from the
\* file, kept its own
C30_Witness ==
    /\ lb.last.merged /\ lb.runs >= 2
    /\ \E n \in lb.last.present : n \in DictKeys(lb.last.before)
    /\ \E n \in DictKeys(lb.last.before) : n \notin lb.last.present

====
